---- MODULE Spec2Model ----
(***************************************************************************)
(* Product assignment server (jtrias11/product-assignment-server).          *)
(*                                                                         *)
(* The repository holds several generations of the same Express server.    *)
(* Each generation is modelled as its own state machine over the same      *)
(* stores (agents, products, assignments); the variable "variant" says     *)
(* which generation is running:                                            *)
(*   "fb"  src/server.js 459-1266      file-backed, re-queue tracking       *)
(*   "fc"  src/server.js 1267-1795     file-backed, completed records kept  *)
(*   "mk"  src/unnamed/part_003 1-665  file-backed, unassign marks records  *)
(*   "mg"  src/unnamed/part_002 1-672  MongoDB-backed                       *)
(*   "tx"  src/server.js 1796-2145     MongoDB-backed, transaction assign   *)
(*   "em"  src/unnamed/part_003 880-1176  in memory, assign without lock  *)
(*                                                                         *)
(* A request handler is an async function: it runs without interruption    *)
(* up to its next await, and other handlers run while it waits.  Each      *)
(* action below is one such uninterrupted segment.  Consecutive awaits     *)
(* with no change of the in-memory state between them are one waiting      *)
(* point.                                                                  *)
(***************************************************************************)
EXTENDS Integers, Sequences, FiniteSets, TLC

\* ------------------------------------------------------------------ bounds
\* Requests a behaviour may issue in total.
MaxReq == 3
\* Largest capacity of an agent (agent 1 has capacity 1, the others this).
MaxCapacity == 2
\* Creation times a CSV row may carry.
CreatedTimes == {1, 2}

\* Number of agents: the sample roster of loadData.
NAgents == 2

AgentIds == 1..NAgents
\* An agent id no agent has, and the absent (falsy) agent id of a request body.
UnknownAgent == NAgents + 1
NoAgent == 0
\* null / undefined, for times and ids.
NULL == 0
\* The string 'all' that unassign-all stores in product.unassignedBy.
ALL == -1

ProductIds == {"X", "Y", "Z"}
\* The absent (falsy) product id of a request body or CSV row.
NoProduct == ""
\* rule_priority values of a CSV row; "P9" stands for any unknown class.
Priorities == {"P1", "P2", "P3", "P9"}

AgentName(a) == IF a = 1 THEN "Agent Sample 1" ELSE "Agent Sample 2"
CapacityOf(a) == IF a = 1 THEN 1 ELSE MaxCapacity

VARIABLES
  variant,               \* which generation of server.js is running
  agents,                \* sequence of agent records (with currentAssignments)
  products,              \* sequence of product records
  assignments,           \* sequence of assignment records (the ledger)
  completedAssignments,  \* "fb" only: completed records, kept separately
  assignmentInProgress,  \* the lock flag of POST /api/assign
  reqs,                  \* requests in flight: request number -> locals and position
  nreq,                  \* number of requests received so far
  now,                   \* the clock: the last timestamp handed out
  lastResp               \* the last HTTP response sent

vars == <<variant, agents, products, assignments, completedAssignments,
          assignmentInProgress, reqs, nreq, now, lastResp>>

\* Array.prototype.findIndex / find, 1-based; 0 when no element matches.  hits
\* is the set of the positions whose element passes the test.
FindIndex(hits) == IF hits = {} THEN 0 ELSE CHOOSE i \in hits : \A j \in hits : i <= j

\* ------------------------------------------------------- requests, replies
Request(kind, pc, agentId, productId, asg, count) ==
  [kind |-> kind, pc |-> pc, agentId |-> agentId, productId |-> productId,
   asg |-> asg, count |-> count, rows |-> <<>>, writeError |-> FALSE]

Response(r, kind, status, error, agentId, productId, asg, count) ==
  [kind |-> kind, status |-> status, error |-> error,
   agentId |-> agentId, productId |-> productId, asg |-> asg, count |-> count]

NoResponse == Response(0, "none", 0, "", NoAgent, NoProduct, NULL, 0)

\* The handler of request r answers and ends.
Reply(r, kind, status, error, agentId, productId, asg, count) ==
  /\ lastResp' = Response(r, kind, status, error, agentId, productId, asg, count)
  /\ reqs' = [q \in DOMAIN reqs \ {r} |-> reqs[q]]

\* The handler of request r reaches an await.
Await(r, req) == reqs' = [q \in DOMAIN reqs \cup {r} |-> IF q = r THEN req ELSE reqs[q]]

\* A request arrives: it gets the next request number.
Arrives(r) == nreq < MaxReq /\ r = nreq + 1 /\ nreq' = r

AgentIndex(agentId) == FindIndex({i \in 1..Len(agents) : agents[i].id = agentId})
ProductIndex(productId) == FindIndex({k \in 1..Len(products) : products[k].id = productId})

\* ===================================================================
\* "fb": the file-backed server with re-queue tracking (src/server.js 459-1266)
\* ===================================================================

\* A row of an uploaded CSV, reduced to the columns the server reads.
CsvRow(id, priority, createdOn) == [id |-> id, priority |-> priority, createdOn |-> createdOn]

\* createProductFromCsvRow: a missing priority becomes "P3".
createProductFromCsvRow(row) ==
  [id |-> row.id,
   priority |-> IF row.priority = "" THEN "P3" ELSE row.priority,
   createdOn |-> row.createdOn,
   assigned |-> FALSE,
   wasAssigned |-> FALSE,
   unassignedTime |-> NULL,
   unassignedBy |-> NULL]

\* Mutant: an existing product is replaced whether it is assigned or not.
MergeRowOverwrite(ps, row) ==
  IF row.id = NoProduct THEN ps
  ELSE LET existingProductIndex == FindIndex({k \in 1..Len(ps) : ps[k].id = row.id})
       IN IF existingProductIndex = 0 THEN Append(ps, createProductFromCsvRow(row))
          ELSE [ps EXCEPT ![existingProductIndex] =
                  [createProductFromCsvRow(row) EXCEPT
                     !.wasAssigned = ps[existingProductIndex].wasAssigned,
                     !.unassignedTime = ps[existingProductIndex].unassignedTime,
                     !.unassignedBy = ps[existingProductIndex].unassignedBy]]

\* One row of mergeProductsFromCsv's forEach, applied to the product list ps.
MergeRow(ps, row) ==
  IF row.id = NoProduct THEN ps
  ELSE LET existingProductIndex == FindIndex({k \in 1..Len(ps) : ps[k].id = row.id})
       IN IF existingProductIndex = 0 THEN Append(ps, createProductFromCsvRow(row))
          ELSE IF ~ps[existingProductIndex].assigned
               THEN [ps EXCEPT ![existingProductIndex] =
                       [createProductFromCsvRow(row) EXCEPT
                          !.wasAssigned = ps[existingProductIndex].wasAssigned,
                          !.unassignedTime = ps[existingProductIndex].unassignedTime,
                          !.unassignedBy = ps[existingProductIndex].unassignedBy]]
               ELSE ps

RECURSIVE mergeProductsFromCsv(_, _)
mergeProductsFromCsv(ps, csvRows) ==
  IF csvRows = <<>> THEN ps
  ELSE mergeProductsFromCsv(MergeRow(ps, Head(csvRows)), Tail(csvRows))

\* A task of agent.currentAssignments (the copied product columns are left out).
Task(productId, assignmentId) == [productId |-> productId, assignmentId |-> assignmentId]

\* updateAgentAssignments: every agent's list is rebuilt from the ledger; a
\* record whose agent or product is not found is skipped.
updateAgentAssignments(ags, asgs, ps) ==
  [i \in 1..Len(ags) |->
     [ags[i] EXCEPT !.currentAssignments =
        LET mine == SelectSeq(asgs, LAMBDA a : a.agentId = ags[i].id
                                      /\ \E k \in 1..Len(ps) : ps[k].id = a.productId)
        IN [k \in 1..Len(mine) |-> Task(mine[k].productId, mine[k].id)]]]

\* agent.currentAssignments.filter(task => task.productId !== productId)
DropTask(ags, agentId, productId) ==
  [i \in 1..Len(ags) |->
     IF ags[i].id = agentId
     THEN [ags[i] EXCEPT !.currentAssignments =
             SelectSeq(ags[i].currentAssignments, LAMBDA t : t.productId # productId)]
     ELSE ags[i]]

\* priorityMap[p.priority] || 999: the rank 0 of "P1" is falsy, so it becomes 999.
PriorityRank(priority) ==
  LET mapped == CASE priority = "P1" -> 0
                  [] priority = "P2" -> 1
                  [] priority = "P3" -> 2
                  [] OTHER -> NULL
  IN IF mapped = 0 THEN 999 ELSE mapped

\* The comparator of the previously assigned candidates.
RequeuedCompare(a, b) ==
  IF a.unassignedTime # NULL /\ b.unassignedTime # NULL
  THEN a.unassignedTime - b.unassignedTime
  ELSE a.createdOn - b.createdOn

\* The comparator of the never assigned candidates.
QueueCompare(a, b) ==
  IF PriorityRank(a.priority) # PriorityRank(b.priority)
  THEN PriorityRank(a.priority) - PriorityRank(b.priority)
  ELSE a.createdOn - b.createdOn

\* (a, b) => new Date(a.createdOn) - new Date(b.createdOn), the comparator of
\* the servers that order by age alone.
CreatedCompare(a, b) == a.createdOn - b.createdOn

\* The comparator of the early in-memory server: priorityOrder[a.priority] -
\* priorityOrder[b.priority] is NaN when either class is not in the map; NaN
\* is returned (NaN !== 0) and Array.prototype.sort reads it as 0.
EmCompare(a, b) ==
  LET priorityOrder == [c \in {"P1", "P2", "P3"} |->
                          IF c = "P1" THEN 0 ELSE IF c = "P2" THEN 1 ELSE 2]
  IN IF a.priority \notin DOMAIN priorityOrder \/ b.priority \notin DOMAIN priorityOrder
     THEN 0
     ELSE IF priorityOrder[a.priority] - priorityOrder[b.priority] # 0
     THEN priorityOrder[a.priority] - priorityOrder[b.priority]
     ELSE a.createdOn - b.createdOn

\* The comparator function handed to Array.prototype.sort.
Compare(cmp, a, b) ==
  CASE cmp = "requeued" -> RequeuedCompare(a, b)
    [] cmp = "queue" -> QueueCompare(a, b)
    [] cmp = "created" -> CreatedCompare(a, b)
    [] cmp = "early" -> EmCompare(a, b)

\* Array.prototype.sort as V8 implements it (TimSort, third_party/v8/builtins/
\* array-sort.tq) for arrays shorter than its minimum run length of 32..64:
\* the leading run is found (and reversed when strictly descending), the
\* remaining elements are placed by binary insertion.
RECURSIVE RunEnd(_, _, _, _)
RunEnd(s, cmp, desc, i) ==
  IF i > Len(s) THEN Len(s)
  ELSE LET order == Compare(cmp, s[i], s[i - 1])
       IN IF (desc /\ order >= 0) \/ (~desc /\ order < 0) THEN i - 1
          ELSE RunEnd(s, cmp, desc, i + 1)

Reverse(s) == [i \in 1..Len(s) |-> s[Len(s) + 1 - i]]

RECURSIVE BinaryPosition(_, _, _, _, _)
BinaryPosition(s, cmp, pivot, left, right) ==
  IF left >= right THEN left
  ELSE LET mid == left + ((right - left) \div 2)
       IN IF Compare(cmp, pivot, s[mid]) < 0
          THEN BinaryPosition(s, cmp, pivot, left, mid)
          ELSE BinaryPosition(s, cmp, pivot, mid + 1, right)

RECURSIVE BinaryInsertionSort(_, _, _)
BinaryInsertionSort(s, cmp, start) ==
  IF start > Len(s) THEN s
  ELSE LET pivot == s[start]
           pos == BinaryPosition(s, cmp, pivot, 1, start)
           placed == SubSeq(s, 1, pos - 1) \o <<pivot>> \o SubSeq(s, pos, start - 1)
                     \o SubSeq(s, start + 1, Len(s))
       IN BinaryInsertionSort(placed, cmp, start + 1)

\* Mutant: a leading pair that compares equal is taken for a descending run.
ArraySortTiesReversed(s, cmp) ==
  IF Len(s) < 2 THEN s
  ELSE LET desc == Compare(cmp, s[2], s[1]) <= 0
           run == RunEnd(s, cmp, desc, 3)
           made == IF desc THEN Reverse(SubSeq(s, 1, run)) \o SubSeq(s, run + 1, Len(s))
                   ELSE s
       IN BinaryInsertionSort(made, cmp, run + 1)

ArraySort(s, cmp) ==
  IF Len(s) < 2 THEN s
  ELSE LET desc == Compare(cmp, s[2], s[1]) < 0
           run == RunEnd(s, cmp, desc, 3)
           made == IF desc THEN Reverse(SubSeq(s, 1, run)) \o SubSeq(s, run + 1, Len(s))
                   ELSE s
       IN BinaryInsertionSort(made, cmp, run + 1)

assignedProductIds(asgs) == {asgs[i].productId : i \in 1..Len(asgs)}

\* Mutant: the never assigned products are offered before the re-queued ones.
FbAvailableProductsQueueFirst(ps, asgs) ==
  LET queue == ArraySort(SelectSeq(ps, LAMBDA p : ~p.assigned
                                      /\ p.id \notin assignedProductIds(asgs)
                                      /\ ~p.wasAssigned),
                         "queue")
  IN IF Len(queue) = 0
     THEN ArraySort(SelectSeq(ps, LAMBDA p : ~p.assigned
                                     /\ p.id \notin assignedProductIds(asgs)
                                     /\ p.wasAssigned),
                    "requeued")
     ELSE queue

\* The candidates of POST /api/assign, in the order the handler sorts them:
\* the previously assigned products if there is any, else the never assigned.
FbAvailableProducts(ps, asgs) ==
  LET requeued == ArraySort(SelectSeq(ps, LAMBDA p : ~p.assigned
                                         /\ p.id \notin assignedProductIds(asgs)
                                         /\ p.wasAssigned),
                            "requeued")
  IN IF Len(requeued) = 0
     THEN ArraySort(SelectSeq(ps, LAMBDA p : ~p.assigned
                                     /\ p.id \notin assignedProductIds(asgs)
                                     /\ ~p.wasAssigned),
                    "queue")
     ELSE requeued

\* if (assignmentInProgress) return res.status(409)
LockNeverHeld == FALSE

LockHeld == assignmentInProgress

\* Mutant: the capacity check lets one assignment too many through.
AtCapacityOffByOne(agent) == Len(agent.currentAssignments) > agent.capacity

\* agent.currentAssignments.length >= agent.capacity
AtCapacity(agent) == Len(agent.currentAssignments) >= agent.capacity

\* Mutant: the record is pushed to the ledger already marked completed.
FbAssignmentCompleted(id, agentId, productId, assignedOn) ==
  [id |-> id, agentId |-> agentId, productId |-> productId, assignedOn |-> assignedOn,
   completed |-> TRUE, completedOn |-> NULL]

FbAssignment(id, agentId, productId, assignedOn) ==
  [id |-> id, agentId |-> agentId, productId |-> productId, assignedOn |-> assignedOn,
   completed |-> FALSE, completedOn |-> NULL]

\* POST /api/assign, from the request to the first await (or to the refusal).
FbAssign(agentId) ==
  /\ variant = "fb"
  /\ \E r \in 1..MaxReq :
       /\ Arrives(r)
       /\ UNCHANGED <<variant, completedAssignments>>
       /\ IF LockHeld
          THEN /\ Reply(r, "assign", 409, "in progress", agentId, NoProduct, NULL, 0)
               /\ UNCHANGED <<agents, products, assignments, assignmentInProgress, now>>
          ELSE IF agentId = NoAgent
          THEN /\ Reply(r, "assign", 400, "agent id required", agentId, NoProduct, NULL, 0)
               /\ UNCHANGED <<agents, products, assignments, assignmentInProgress, now>>
          ELSE IF AgentIndex(agentId) = 0
          THEN /\ Reply(r, "assign", 404, "agent not found", agentId, NoProduct, NULL, 0)
               /\ UNCHANGED <<agents, products, assignments, assignmentInProgress, now>>
          ELSE IF AtCapacity(agents[AgentIndex(agentId)])
          THEN /\ Reply(r, "assign", 400, "capacity", agentId, NoProduct, NULL, 0)
               /\ UNCHANGED <<agents, products, assignments, assignmentInProgress, now>>
          ELSE IF Len(FbAvailableProducts(products, assignments)) = 0
          THEN /\ Reply(r, "assign", 404, "no products", agentId, NoProduct, NULL, 0)
               /\ UNCHANGED <<agents, products, assignments, assignmentInProgress, now>>
          ELSE LET productToAssign == FbAvailableProducts(products, assignments)[1]
                   k == ProductIndex(productToAssign.id)
               IN /\ products' = [products EXCEPT ![k] =
                                    [@ EXCEPT !.assigned = TRUE, !.wasAssigned = TRUE,
                                              !.unassignedTime = NULL, !.unassignedBy = NULL]]
                  /\ now' = now + 1
                  /\ assignments' = Append(assignments,
                                           FbAssignment(r, agentId, productToAssign.id, now + 1))
                  /\ assignmentInProgress' = TRUE
                  /\ Await(r, Request("assign", "saving", agentId, productToAssign.id, r, 0))
                  /\ UNCHANGED <<agents, lastResp>>

\* POST /api/assign after saveAgents: the lock is released and 200 is sent.
FbAssignRespond(r) ==
  /\ variant = "fb"
  /\ r \in DOMAIN reqs /\ reqs[r].kind = "assign" /\ reqs[r].pc = "savingAgents"
  /\ assignmentInProgress' = FALSE
  /\ Reply(r, "assign", 200, "", reqs[r].agentId, reqs[r].productId, reqs[r].asg, 0)
  /\ UNCHANGED <<variant, agents, products, assignments, completedAssignments,
                 nreq, now>>

\* The part every handler shares: after the awaited saves,
\*   updateAgentAssignments(); await saveAgents();
FbUpdateStep(r) ==
  /\ variant = "fb"
  /\ r \in DOMAIN reqs /\ reqs[r].pc = "saving"
  /\ agents' = updateAgentAssignments(agents, assignments, products)
  /\ Await(r, [reqs[r] EXCEPT !.pc = "savingAgents"])
  /\ UNCHANGED <<variant, products, assignments, completedAssignments,
                 assignmentInProgress, nreq, now, lastResp>>

FbRespondStep(r) ==
  /\ variant = "fb"
  /\ r \in DOMAIN reqs /\ reqs[r].kind # "assign" /\ reqs[r].pc = "savingAgents"
  /\ Reply(r, reqs[r].kind, 200, "", reqs[r].agentId, reqs[r].productId, reqs[r].asg, reqs[r].count)
  /\ UNCHANGED <<variant, agents, products, assignments, completedAssignments,
                 assignmentInProgress, nreq, now>>

\* A handler refuses the request in its first segment and changes nothing.
Refuse(r, kind, status, error, agentId, productId) ==
  /\ Reply(r, kind, status, error, agentId, productId, NULL, 0)
  /\ UNCHANGED <<agents, products, assignments, completedAssignments,
                 assignmentInProgress, now>>

\* POST /api/complete, from the request to the first await.
FbComplete(agentId, productId) ==
  /\ variant = "fb"
  /\ \E r \in 1..MaxReq :
       /\ Arrives(r)
       /\ UNCHANGED <<variant, assignmentInProgress>>
       /\ LET assignmentIndex ==
                FindIndex({i \in 1..Len(assignments) :
                             /\ assignments[i].agentId = agentId
                             /\ assignments[i].productId = productId
                             /\ ~assignments[i].completed})
          IN IF agentId = NoAgent \/ productId = NoProduct
             THEN Refuse(r, "complete", 400, "ids required", agentId, productId)
             ELSE IF AgentIndex(agentId) = 0
             THEN Refuse(r, "complete", 404, "agent not found", agentId, productId)
             ELSE IF assignmentIndex = 0
             THEN Refuse(r, "complete", 404, "active assignment not found", agentId, productId)
             ELSE LET assignment == [assignments[assignmentIndex] EXCEPT
                                       !.completed = TRUE, !.completedOn = now + 1]
                      k == ProductIndex(productId)
                  IN /\ now' = now + 1
                     /\ completedAssignments' = Append(completedAssignments, assignment)
                     /\ assignments' = SubSeq(assignments, 1, assignmentIndex - 1)
                                       \o SubSeq(assignments, assignmentIndex + 1, Len(assignments))
                     /\ products' = IF k = 0 THEN products
                                    ELSE [products EXCEPT ![k].assigned = FALSE]
                     /\ agents' = DropTask(agents, agentId, productId)
                     /\ Await(r, Request("complete", "saving", agentId, productId,
                                         assignment.id, 0))
                     /\ UNCHANGED lastResp


\* The product fields an unassign request sets.
Unassigned(p, time, by) ==
  [p EXCEPT !.assigned = FALSE, !.wasAssigned = TRUE,
            !.unassignedTime = time, !.unassignedBy = by]

\* POST /api/unassign-product, from the request to the first await.
FbUnassignProduct(productId) ==
  /\ variant = "fb"
  /\ \E r \in 1..MaxReq :
       /\ Arrives(r)
       /\ UNCHANGED <<variant, assignmentInProgress, completedAssignments>>
       /\ LET productAssignments ==
                SelectSeq(assignments, LAMBDA a : a.productId = productId /\ ~a.completed)
              holders == {productAssignments[i].agentId : i \in 1..Len(productAssignments)}
              k == ProductIndex(productId)
          IN IF productId = NoProduct
             THEN Refuse(r, "unassignProduct", 400, "product id required", NoAgent, productId)
             ELSE IF Len(productAssignments) = 0
             THEN Refuse(r, "unassignProduct", 404, "no active assignment", NoAgent, productId)
             ELSE /\ agents' = [i \in 1..Len(agents) |->
                                  IF agents[i].id \in holders
                                  THEN DropTask(agents, agents[i].id, productId)[i]
                                  ELSE agents[i]]
                  /\ now' = now + 1
                  /\ products' = IF k = 0 THEN products
                                 ELSE [products EXCEPT ![k] =
                                         Unassigned(@, now + 1, productAssignments[1].agentId)]
                  /\ assignments' = SelectSeq(assignments,
                                           LAMBDA a : a.productId # productId \/ a.completed)
                  /\ Await(r, Request("unassignProduct", "saving", NoAgent, productId, NULL, 0))
                  /\ UNCHANGED lastResp


\* POST /api/unassign-agent, from the request to the first await.  The
\* products are taken from agent.currentAssignments, the records from the ledger.
FbUnassignAgent(agentId) ==
  /\ variant = "fb"
  /\ \E r \in 1..MaxReq :
       /\ Arrives(r)
       /\ UNCHANGED <<variant, assignmentInProgress, completedAssignments>>
       /\ IF agentId = NoAgent
          THEN Refuse(r, "unassignAgent", 400, "agent id required", agentId, NoProduct)
          ELSE IF AgentIndex(agentId) = 0
          THEN Refuse(r, "unassignAgent", 404, "agent not found", agentId, NoProduct)
          ELSE LET agent == agents[AgentIndex(agentId)]
                   tasksCount == Len(agent.currentAssignments)
                   held == {agent.currentAssignments[i].productId : i \in 1..tasksCount}
               IN IF tasksCount = 0
                  THEN Refuse(r, "unassignAgent", 200, "no tasks", agentId, NoProduct)
                  ELSE /\ now' = now + 1
                       /\ products' = [k \in 1..Len(products) |->
                                         IF products[k].id \in held
                                         THEN Unassigned(products[k], now + 1, agentId)
                                         ELSE products[k]]
                       /\ assignments' = SelectSeq(assignments,
                                                LAMBDA a : a.agentId # agentId \/ a.completed)
                       /\ agents' = [agents EXCEPT
                                       ![AgentIndex(agentId)].currentAssignments = <<>>]
                       /\ Await(r, Request("unassignAgent", "saving", agentId, NoProduct,
                                           NULL, tasksCount))
                       /\ UNCHANGED lastResp


\* POST /api/unassign-all, from the request to the first await.  The clock is
\* advanced only when a timestamp is stored.
FbUnassignAll ==
  /\ variant = "fb"
  /\ \E r \in 1..MaxReq :
       /\ Arrives(r)
       /\ UNCHANGED <<variant, assignmentInProgress, completedAssignments, lastResp>>
       /\ LET active == SelectSeq(assignments, LAMBDA a : ~a.completed)
              totalActive == Len(active)
              freed == {active[i].productId : i \in 1..totalActive}
          IN /\ now' = IF totalActive = 0 THEN now ELSE now + 1
             /\ products' = [k \in 1..Len(products) |->
                               IF products[k].id \in freed
                               THEN Unassigned(products[k], now + 1, ALL)
                               ELSE products[k]]
             /\ assignments' = SelectSeq(assignments, LAMBDA a : a.completed)
             /\ agents' = [i \in 1..Len(agents) |->
                             [agents[i] EXCEPT !.currentAssignments = <<>>]]
             /\ Await(r, Request("unassignAll", "savingAgents", NoAgent, NoProduct,
                                 NULL, totalActive))

\* POST /api/unassign-all after its saves: 200 (no updateAgentAssignments here).

\* The CSV files a client may upload: at most one row, which names a product
\* not yet listed, a listed product with other column values, or no product.
CsvRows == {CsvRow("Z", "", 1), CsvRow("X", "P1", 2), CsvRow(NoProduct, "P1", 1)}
CsvFiles == {<<>>} \cup {<<row>> : row \in CsvRows}

\* POST /api/upload-output, up to the await of readCsvFile; the request
\* carries the file.
FbUpload(csvRows) ==
  /\ variant = "fb"
  /\ \E r \in 1..MaxReq :
       /\ Arrives(r)
       /\ Await(r, [Request("upload", "reading", NoAgent, NoProduct, NULL, 0)
                      EXCEPT !.rows = csvRows])
       /\ UNCHANGED <<variant, agents, products, assignments, completedAssignments,
                      assignmentInProgress, now, lastResp>>

\* POST /api/upload-output: the rows are merged, then saveProducts is awaited.
FbUploadMerge(r) ==
  /\ variant = "fb"
  /\ r \in DOMAIN reqs /\ reqs[r].kind = "upload" /\ reqs[r].pc = "reading"
  /\ products' = mergeProductsFromCsv(products, reqs[r].rows)
  /\ Await(r, [reqs[r] EXCEPT !.pc = "saving"])
  /\ UNCHANGED <<variant, agents, assignments, completedAssignments,
                 assignmentInProgress, nreq, now, lastResp>>


\* POST /api/refresh, up to the await of ensureDataDir in loadData(false).
FbRefresh ==
  /\ variant = "fb"
  /\ \E r \in 1..MaxReq :
       /\ Arrives(r)
       /\ Await(r, Request("refresh", "loading", NoAgent, NoProduct, NULL, 0))
       /\ UNCHANGED <<variant, agents, products, assignments, completedAssignments,
                      assignmentInProgress, now, lastResp>>

\* POST /api/refresh: loadData(false) only calls updateAgentAssignments; 200.
FbRefreshRespond(r) ==
  /\ variant = "fb"
  /\ r \in DOMAIN reqs /\ reqs[r].kind = "refresh" /\ reqs[r].pc = "loading"
  /\ agents' = updateAgentAssignments(agents, assignments, products)
  /\ Reply(r, "refresh", 200, "", NoAgent, NoProduct, NULL, 0)
  /\ UNCHANGED <<variant, products, assignments, completedAssignments,
                 assignmentInProgress, nreq, now>>

\* The state after loadData(true) on a fresh data directory: the roster, the
\* products of output.csv, an empty ledger.
Agent(id) == [id |-> id, name |-> AgentName(id), capacity |-> CapacityOf(id),
              currentAssignments |-> <<>>]

InitialAgents == [i \in 1..NAgents |-> Agent(i)]

\* The scenario of the specification: X (P2, created at 1), Y (P1, created at 2).
FbInitialProducts ==
  <<createProductFromCsvRow(CsvRow("X", "P2", 1)),
    createProductFromCsvRow(CsvRow("Y", "P1", 2))>>

InitStores(v, ags, ps) ==
  /\ variant = v
  /\ agents = ags
  /\ products = ps
  /\ assignments = <<>>
  /\ completedAssignments = <<>>
  /\ assignmentInProgress = FALSE
  /\ reqs = <<>>
  /\ nreq = 0
  /\ now = 0
  /\ lastResp = NoResponse

InitFb == InitStores("fb", InitialAgents, FbInitialProducts)

RequestAgents == AgentIds \cup {NoAgent, UnknownAgent}
RequestProducts == ProductIds \cup {NoProduct}

NextFb ==
  \/ \E a \in RequestAgents : FbAssign(a)
  \/ \E r \in 1..MaxReq : FbUpdateStep(r)
  \/ \E r \in 1..MaxReq : FbAssignRespond(r)
  \/ \E r \in 1..MaxReq : FbRespondStep(r)
  \/ \E a \in RequestAgents, p \in RequestProducts : FbComplete(a, p)
  \/ \E p \in RequestProducts : FbUnassignProduct(p)
  \/ \E a \in RequestAgents : FbUnassignAgent(a)
  \/ FbUnassignAll
  \/ \E f \in CsvFiles : FbUpload(f)
  \/ \E r \in 1..MaxReq : FbUploadMerge(r)
  \/ FbRefresh
  \/ \E r \in 1..MaxReq : FbRefreshRespond(r)

SpecFb == InitFb /\ [][NextFb]_vars

\* saveAssignments, saveProducts, saveAgents: fs.writeFile rejects while the
\* handler of request r awaits the save.  The save function catches the error
\* and logs it; nothing is rethrown, and the handler resumes as after a write
\* that succeeded.
FbWriteFails(r) ==
  /\ variant = "fb"
  /\ r \in DOMAIN reqs
  /\ reqs[r].kind \in {"assign", "complete", "unassignProduct", "unassignAgent", "unassignAll"}
  /\ reqs[r].pc \in {"saving", "savingAgents"}
  /\ ~reqs[r].writeError
  /\ reqs' = [reqs EXCEPT ![r].writeError = TRUE]
  /\ UNCHANGED <<variant, agents, products, assignments, completedAssignments,
                 assignmentInProgress, nreq, now, lastResp>>

NextFbWriteFails ==
  \/ NextFb
  \/ \E r \in 1..MaxReq : FbWriteFails(r)

SpecFbWriteFails == InitFb /\ [][NextFbWriteFails]_vars

\* The merge on its own: files of up to MaxRows rows, uploaded while products
\* are assigned, unassigned and assigned again.
MaxRows == 2

MergeFiles ==
  UNION {[1..n -> CsvRows] : n \in 0..MaxRows}

NextFbUpload ==
  \/ \E a \in AgentIds : FbAssign(a)
  \/ \E r \in 1..MaxReq : FbUpdateStep(r)
  \/ \E r \in 1..MaxReq : FbAssignRespond(r)
  \/ \E r \in 1..MaxReq : FbRespondStep(r)
  \/ \E p \in ProductIds : FbUnassignProduct(p)
  \/ \E f \in MergeFiles : FbUpload(f)
  \/ \E r \in 1..MaxReq : FbUploadMerge(r)

SpecFbUpload == InitFb /\ [][NextFbUpload]_vars

\* The selection policy on its own: two products of any class and creation
\* time, and the requests that move a product through the queue.
ProductLists ==
  {<<createProductFromCsvRow(CsvRow("X", px, cx)),
     createProductFromCsvRow(CsvRow("Y", py, cy))>> :
     px \in Priorities, py \in Priorities, cx \in CreatedTimes, cy \in CreatedTimes}

InitFbPolicy == \E ps \in ProductLists : InitStores("fb", InitialAgents, ps)

NextFbPolicy ==
  \/ \E a \in AgentIds : FbAssign(a)
  \/ \E r \in 1..MaxReq : FbUpdateStep(r)
  \/ \E r \in 1..MaxReq : FbAssignRespond(r)
  \/ \E r \in 1..MaxReq : FbRespondStep(r)
  \/ \E a \in AgentIds, p \in ProductIds : FbComplete(a, p)
  \/ \E p \in ProductIds : FbUnassignProduct(p)

SpecFbPolicy == InitFbPolicy /\ [][NextFbPolicy]_vars

\* The server starts on a products.json written by an earlier run (loadData,
\* products = JSON.parse(productsData)): every product is in the queue, never
\* assigned, or assigned before and then unassigned (it carries the time) or
\* completed (it carries none).
StoredProducts(id) ==
  {createProductFromCsvRow(CsvRow(id, priority, createdOn)) :
     priority \in Priorities, createdOn \in CreatedTimes}
  \cup {[createProductFromCsvRow(CsvRow(id, "P3", createdOn)) EXCEPT
           !.wasAssigned = TRUE, !.unassignedTime = time,
           !.unassignedBy = IF time = NULL THEN NULL ELSE 1] :
          createdOn \in CreatedTimes, time \in CreatedTimes \cup {NULL}}

InitFbQueue ==
  \E x \in StoredProducts("X"), y \in StoredProducts("Y"), z \in StoredProducts("Z") :
    /\ InitStores("fb", InitialAgents, <<x, y, z>>)

NextFbQueue ==
  \/ \E a \in AgentIds : FbAssign(a)
  \/ \E r \in 1..MaxReq : FbUpdateStep(r)
  \/ \E r \in 1..MaxReq : FbAssignRespond(r)

SpecFbQueue == InitFbQueue /\ [][NextFbQueue]_vars

\* ===================================================================
\* "mk": the file-backed server whose unassign requests mark the ledger
\* records instead of removing them (src/unnamed/part_003 1-665).  Its
\* upload-output and refresh handlers (loadData) are not part of this model.
\* ===================================================================

\* The product record loadData builds from a CSV row.
MkProduct(row) ==
  [id |-> row.id, priority |-> row.priority, createdOn |-> row.createdOn, assigned |-> FALSE]

\* The record POST /api/assign pushes; unassignedTime, unassignedBy and
\* wasUnassigned are absent until an unassign request sets them.
NoName == ""
MkAssignment(id, agentId, productId, assignedOn) ==
  [id |-> id, agentId |-> agentId, productId |-> productId, assignedOn |-> assignedOn,
   completed |-> FALSE, completedOn |-> NULL,
   unassignedTime |-> NULL, unassignedBy |-> NoName, wasUnassigned |-> FALSE]

MkActiveNotCompleted(a) == ~a.completed

\* !a.completed && !a.unassignedTime
MkActive(a) == ~a.completed /\ a.unassignedTime = NULL

\* updateAgentAssignments of this generation: only the active records count.
MkUpdateAgentAssignments(ags, asgs, ps) ==
  [i \in 1..Len(ags) |->
     [ags[i] EXCEPT !.currentAssignments =
        LET mine == SelectSeq(asgs, LAMBDA a : MkActive(a) /\ a.agentId = ags[i].id
                                      /\ \E k \in 1..Len(ps) : ps[k].id = a.productId)
        IN [k \in 1..Len(mine) |-> Task(mine[k].productId, mine[k].id)]]]

\* The candidates of POST /api/assign: not flagged assigned and referenced by
\* no record of the ledger, whatever the record's state; oldest first.
MkAvailableProducts(ps, asgs) ==
  ArraySort(SelectSeq(ps, LAMBDA p : ~p.assigned /\ p.id \notin assignedProductIds(asgs)),
            "created")

\* The name an unassign request stores in unassignedBy.
NameOf(ags, agentId) ==
  LET i == FindIndex({i \in 1..Len(ags) : ags[i].id = agentId})
  IN IF i = 0 THEN "Unknown" ELSE ags[i].name

\* The fields an unassign request sets on a ledger record.
MarkUnassigned(a, time, by) ==
  [a EXCEPT !.unassignedTime = time, !.unassignedBy = by, !.wasUnassigned = TRUE]

\* Mutant: completedOn is not set.
MarkCompletedNoTime(a, time) == [a EXCEPT !.completed = TRUE]

\* The fields a complete request sets on a ledger record.
MarkCompleted(a, time) == [a EXCEPT !.completed = TRUE, !.completedOn = time]

\* product.assigned = false for the products whose id is in ids.
Release(ps, ids) ==
  [k \in 1..Len(ps) |-> IF ps[k].id \in ids THEN [ps[k] EXCEPT !.assigned = FALSE] ELSE ps[k]]

MkUpdateStep(r) ==
  /\ variant = "mk"
  /\ r \in DOMAIN reqs /\ reqs[r].pc = "saving"
  /\ agents' = MkUpdateAgentAssignments(agents, assignments, products)
  /\ Await(r, [reqs[r] EXCEPT !.pc = "savingAgents"])
  /\ UNCHANGED <<variant, products, assignments, completedAssignments,
                 assignmentInProgress, nreq, now, lastResp>>

MkRespondStep(r) ==
  /\ variant = "mk"
  /\ r \in DOMAIN reqs /\ reqs[r].kind # "assign" /\ reqs[r].pc = "savingAgents"
  /\ Reply(r, reqs[r].kind, 200, "", reqs[r].agentId, reqs[r].productId, reqs[r].asg, reqs[r].count)
  /\ UNCHANGED <<variant, agents, products, assignments, completedAssignments,
                 assignmentInProgress, nreq, now>>

\* POST /api/assign, from the request to the first await (or to the refusal).
MkAssign(agentId) ==
  /\ variant = "mk"
  /\ \E r \in 1..MaxReq :
       /\ Arrives(r)
       /\ UNCHANGED <<variant, completedAssignments>>
       /\ IF LockHeld
          THEN /\ Reply(r, "assign", 409, "in progress", agentId, NoProduct, NULL, 0)
               /\ UNCHANGED <<agents, products, assignments, assignmentInProgress, now>>
          ELSE IF agentId = NoAgent
          THEN /\ Reply(r, "assign", 400, "agent id required", agentId, NoProduct, NULL, 0)
               /\ UNCHANGED <<agents, products, assignments, assignmentInProgress, now>>
          ELSE IF AgentIndex(agentId) = 0
          THEN /\ Reply(r, "assign", 404, "agent not found", agentId, NoProduct, NULL, 0)
               /\ UNCHANGED <<agents, products, assignments, assignmentInProgress, now>>
          ELSE IF AtCapacity(agents[AgentIndex(agentId)])
          THEN /\ Reply(r, "assign", 400, "capacity", agentId, NoProduct, NULL, 0)
               /\ UNCHANGED <<agents, products, assignments, assignmentInProgress, now>>
          ELSE IF Len(MkAvailableProducts(products, assignments)) = 0
          THEN /\ Reply(r, "assign", 404, "no products", agentId, NoProduct, NULL, 0)
               /\ UNCHANGED <<agents, products, assignments, assignmentInProgress, now>>
          ELSE LET productToAssign == MkAvailableProducts(products, assignments)[1]
                   k == ProductIndex(productToAssign.id)
               IN /\ products' = [products EXCEPT ![k].assigned = TRUE]
                  /\ now' = now + 1
                  /\ assignments' = Append(assignments,
                                           MkAssignment(r, agentId, productToAssign.id, now + 1))
                  /\ assignmentInProgress' = TRUE
                  /\ Await(r, Request("assign", "saving", agentId, productToAssign.id, r, 0))
                  /\ UNCHANGED <<agents, lastResp>>


\* POST /api/assign after saveAgents: the lock is released and 200 is sent.
MkAssignRespond(r) ==
  /\ variant = "mk"
  /\ r \in DOMAIN reqs /\ reqs[r].kind = "assign" /\ reqs[r].pc = "savingAgents"
  /\ assignmentInProgress' = FALSE
  /\ Reply(r, "assign", 200, "", reqs[r].agentId, reqs[r].productId, reqs[r].asg, 0)
  /\ UNCHANGED <<variant, agents, products, assignments, completedAssignments,
                 nreq, now>>

\* POST /api/complete, from the request to the first await.
MkComplete(agentId, productId) ==
  /\ variant = "mk"
  /\ \E r \in 1..MaxReq :
       /\ Arrives(r)
       /\ UNCHANGED <<variant, assignmentInProgress>>
       /\ LET assignmentIndex ==
                FindIndex({i \in 1..Len(assignments) :
                             /\ assignments[i].agentId = agentId
                             /\ assignments[i].productId = productId
                             /\ MkActive(assignments[i])})
          IN IF agentId = NoAgent \/ productId = NoProduct
             THEN Refuse(r, "complete", 400, "ids required", agentId, productId)
             ELSE IF AgentIndex(agentId) = 0
             THEN Refuse(r, "complete", 404, "agent not found", agentId, productId)
             ELSE IF assignmentIndex = 0
             THEN Refuse(r, "complete", 404, "active assignment not found", agentId, productId)
             ELSE /\ now' = now + 1
                  /\ assignments' = [assignments EXCEPT ![assignmentIndex] =
                                       MarkCompleted(@, now + 1)]
                  /\ products' = IF ProductIndex(productId) = 0 THEN products
                                 ELSE [products EXCEPT ![ProductIndex(productId)].assigned = FALSE]
                  /\ Await(r, Request("complete", "saving", agentId, productId,
                                      assignments[assignmentIndex].id, 0))
                  /\ UNCHANGED <<agents, completedAssignments, lastResp>>


\* POST /api/complete-all-agent, from the request to the first await.
MkCompleteAll(agentId) ==
  /\ variant = "mk"
  /\ \E r \in 1..MaxReq :
       /\ Arrives(r)
       /\ UNCHANGED <<variant, assignmentInProgress>>
       /\ LET mine(a) == a.agentId = agentId /\ MkActive(a)
              activeAssignments == SelectSeq(assignments, mine)
          IN IF agentId = NoAgent
             THEN Refuse(r, "completeAll", 400, "agent id required", agentId, NoProduct)
             ELSE IF AgentIndex(agentId) = 0
             THEN Refuse(r, "completeAll", 404, "agent not found", agentId, NoProduct)
             ELSE IF Len(activeAssignments) = 0
             THEN Refuse(r, "completeAll", 200, "no active tasks", agentId, NoProduct)
             ELSE /\ now' = now + 1
                  /\ assignments' = [i \in 1..Len(assignments) |->
                                       IF mine(assignments[i])
                                       THEN MarkCompleted(assignments[i], now + 1)
                                       ELSE assignments[i]]
                  /\ products' = Release(products, {activeAssignments[i].productId :
                                                      i \in 1..Len(activeAssignments)})
                  /\ Await(r, Request("completeAll", "saving", agentId, NoProduct, NULL,
                                      Len(activeAssignments)))
                  /\ UNCHANGED <<agents, completedAssignments, lastResp>>


\* POST /api/unassign-product, from the request to the first await.
MkUnassignProduct(productId) ==
  /\ variant = "mk"
  /\ \E r \in 1..MaxReq :
       /\ Arrives(r)
       /\ UNCHANGED <<variant, assignmentInProgress>>
       /\ LET hit(a) == a.productId = productId /\ MkActive(a)
              productAssignments == SelectSeq(assignments, hit)
              holders == {productAssignments[i].agentId : i \in 1..Len(productAssignments)}
          IN IF productId = NoProduct
             THEN Refuse(r, "unassignProduct", 400, "product id required", NoAgent, productId)
             ELSE IF Len(productAssignments) = 0
             THEN Refuse(r, "unassignProduct", 404, "no active assignment", NoAgent, productId)
             ELSE /\ agents' = [i \in 1..Len(agents) |->
                                  IF agents[i].id \in holders
                                  THEN DropTask(agents, agents[i].id, productId)[i]
                                  ELSE agents[i]]
                  /\ now' = now + 1
                  /\ assignments' = [i \in 1..Len(assignments) |->
                                       IF hit(assignments[i])
                                       THEN MarkUnassigned(assignments[i], now + 1,
                                                           NameOf(agents, assignments[i].agentId))
                                       ELSE assignments[i]]
                  /\ products' = Release(products, {productId})
                  /\ Await(r, Request("unassignProduct", "saving", NoAgent, productId, NULL, 0))
                  /\ UNCHANGED <<completedAssignments, lastResp>>


\* POST /api/unassign-agent, from the request to the first await.  The
\* products are taken from agent.currentAssignments, the records from the ledger.
MkUnassignAgent(agentId) ==
  /\ variant = "mk"
  /\ \E r \in 1..MaxReq :
       /\ Arrives(r)
       /\ UNCHANGED <<variant, assignmentInProgress>>
       /\ IF agentId = NoAgent
          THEN Refuse(r, "unassignAgent", 400, "agent id required", agentId, NoProduct)
          ELSE IF AgentIndex(agentId) = 0
          THEN Refuse(r, "unassignAgent", 404, "agent not found", agentId, NoProduct)
          ELSE LET agent == agents[AgentIndex(agentId)]
                   tasksCount == Len(agent.currentAssignments)
                   held == {agent.currentAssignments[i].productId : i \in 1..tasksCount}
               IN IF tasksCount = 0
                  THEN Refuse(r, "unassignAgent", 200, "no tasks", agentId, NoProduct)
                  ELSE /\ now' = now + 1
                       /\ products' = Release(products, held)
                       /\ assignments' = [i \in 1..Len(assignments) |->
                                            IF assignments[i].agentId = agentId
                                               /\ MkActive(assignments[i])
                                            THEN MarkUnassigned(assignments[i], now + 1,
                                                                NameOf(agents, agentId))
                                            ELSE assignments[i]]
                       /\ agents' = [agents EXCEPT
                                       ![AgentIndex(agentId)].currentAssignments = <<>>]
                       /\ Await(r, Request("unassignAgent", "saving", agentId, NoProduct,
                                           NULL, tasksCount))
                       /\ UNCHANGED <<completedAssignments, lastResp>>


\* POST /api/unassign-all, from the request to the first await.
MkUnassignAll ==
  /\ variant = "mk"
  /\ \E r \in 1..MaxReq :
       /\ Arrives(r)
       /\ UNCHANGED <<variant, assignmentInProgress, completedAssignments, lastResp>>
       /\ LET totalActive == Len(SelectSeq(assignments, MkActive))
          IN /\ now' = IF totalActive = 0 THEN now ELSE now + 1
             /\ assignments' = [i \in 1..Len(assignments) |->
                                  IF MkActive(assignments[i])
                                  THEN MarkUnassigned(assignments[i], now + 1,
                                                      NameOf(agents, assignments[i].agentId))
                                  ELSE assignments[i]]
             /\ products' = [k \in 1..Len(products) |-> [products[k] EXCEPT !.assigned = FALSE]]
             /\ agents' = [i \in 1..Len(agents) |->
                             [agents[i] EXCEPT !.currentAssignments = <<>>]]
             /\ Await(r, Request("unassignAll", "savingAgents", NoAgent, NoProduct,
                                 NULL, totalActive))


\* The state after loadData: the roster, the products of output.csv (one
\* product, or two with any creation times), an empty ledger.
MkProductLists ==
  {<<MkProduct(CsvRow("X", "P2", 1))>>} \cup
  {<<MkProduct(CsvRow("X", "P2", cx)), MkProduct(CsvRow("Y", "P1", cy))>> :
     cx \in CreatedTimes, cy \in CreatedTimes}

InitMk == \E ps \in MkProductLists : InitStores("mk", InitialAgents, ps)

NextMk ==
  \/ \E a \in RequestAgents : MkAssign(a)
  \/ \E r \in 1..MaxReq : MkUpdateStep(r)
  \/ \E r \in 1..MaxReq : MkAssignRespond(r)
  \/ \E r \in 1..MaxReq : MkRespondStep(r)
  \/ \E a \in RequestAgents, p \in RequestProducts : MkComplete(a, p)
  \/ \E a \in RequestAgents : MkCompleteAll(a)
  \/ \E p \in RequestProducts : MkUnassignProduct(p)
  \/ \E a \in RequestAgents : MkUnassignAgent(a)
  \/ MkUnassignAll

SpecMk == InitMk /\ [][NextMk]_vars

\* ===================================================================
\* "fc": the file-backed server that keeps completed records in the
\* assignments list (src/server.js 1267-1795).  Its products are those of
\* MkProduct, its records those of FbAssignment, its candidates those of
\* MkAvailableProducts; its updateAgentAssignments is that of "fb": it
\* lists every record of the ledger, completed or not.  Of its handlers
\* assign and complete are modelled.
\* ===================================================================

\* POST /api/assign, from the request to the first await (or to the refusal).
FcAssign(agentId) ==
  /\ variant = "fc"
  /\ \E r \in 1..MaxReq :
       /\ Arrives(r)
       /\ UNCHANGED <<variant, completedAssignments>>
       /\ IF LockHeld
          THEN /\ Reply(r, "assign", 409, "in progress", agentId, NoProduct, NULL, 0)
               /\ UNCHANGED <<agents, products, assignments, assignmentInProgress, now>>
          ELSE IF agentId = NoAgent
          THEN /\ Reply(r, "assign", 400, "agent id required", agentId, NoProduct, NULL, 0)
               /\ UNCHANGED <<agents, products, assignments, assignmentInProgress, now>>
          ELSE IF AgentIndex(agentId) = 0
          THEN /\ Reply(r, "assign", 404, "agent not found", agentId, NoProduct, NULL, 0)
               /\ UNCHANGED <<agents, products, assignments, assignmentInProgress, now>>
          ELSE IF AtCapacity(agents[AgentIndex(agentId)])
          THEN /\ Reply(r, "assign", 400, "capacity", agentId, NoProduct, NULL, 0)
               /\ UNCHANGED <<agents, products, assignments, assignmentInProgress, now>>
          ELSE IF Len(MkAvailableProducts(products, assignments)) = 0
          THEN /\ Reply(r, "assign", 404, "no products", agentId, NoProduct, NULL, 0)
               /\ UNCHANGED <<agents, products, assignments, assignmentInProgress, now>>
          ELSE LET productToAssign == MkAvailableProducts(products, assignments)[1]
                   k == ProductIndex(productToAssign.id)
               IN /\ products' = [products EXCEPT ![k].assigned = TRUE]
                  /\ now' = now + 1
                  /\ assignments' = Append(assignments,
                                           FbAssignment(r, agentId, productToAssign.id, now + 1))
                  /\ assignmentInProgress' = TRUE
                  /\ Await(r, Request("assign", "saving", agentId, productToAssign.id, r, 0))
                  /\ UNCHANGED <<agents, lastResp>>

\* POST /api/complete, from the request to the first await.
FcComplete(agentId, productId) ==
  /\ variant = "fc"
  /\ \E r \in 1..MaxReq :
       /\ Arrives(r)
       /\ UNCHANGED <<variant, assignmentInProgress>>
       /\ LET assignmentIndex ==
                FindIndex({i \in 1..Len(assignments) :
                             /\ assignments[i].agentId = agentId
                             /\ assignments[i].productId = productId
                             /\ ~assignments[i].completed})
          IN IF agentId = NoAgent \/ productId = NoProduct
             THEN Refuse(r, "complete", 400, "ids required", agentId, productId)
             ELSE IF AgentIndex(agentId) = 0
             THEN Refuse(r, "complete", 404, "agent not found", agentId, productId)
             ELSE IF assignmentIndex = 0
             THEN Refuse(r, "complete", 404, "active assignment not found", agentId, productId)
             ELSE /\ now' = now + 1
                  /\ assignments' = [assignments EXCEPT ![assignmentIndex] =
                                       [@ EXCEPT !.completed = TRUE, !.completedOn = now + 1]]
                  /\ products' = Release(products, {productId})
                  /\ agents' = DropTask(agents, agentId, productId)
                  /\ Await(r, Request("complete", "saving", agentId, productId,
                                      assignments[assignmentIndex].id, 0))
                  /\ UNCHANGED <<completedAssignments, lastResp>>

\* After await saveAssignments(): updateAgentAssignments(); await saveAgents().
FcUpdateStep(r) ==
  /\ variant = "fc"
  /\ r \in DOMAIN reqs /\ reqs[r].pc = "saving"
  /\ agents' = updateAgentAssignments(agents, assignments, products)
  /\ Await(r, [reqs[r] EXCEPT !.pc = "savingAgents"])
  /\ UNCHANGED <<variant, products, assignments, completedAssignments,
                 assignmentInProgress, nreq, now, lastResp>>

\* After await saveAgents(): 200; POST /api/assign releases the lock first.
FcRespondStep(r) ==
  /\ variant = "fc"
  /\ r \in DOMAIN reqs /\ reqs[r].pc = "savingAgents"
  /\ assignmentInProgress' = IF reqs[r].kind = "assign" THEN FALSE ELSE assignmentInProgress
  /\ Reply(r, reqs[r].kind, 200, "", reqs[r].agentId, reqs[r].productId, reqs[r].asg, reqs[r].count)
  /\ UNCHANGED <<variant, agents, products, assignments, completedAssignments, nreq, now>>

InitFc == \E ps \in MkProductLists : InitStores("fc", InitialAgents, ps)

NextFc ==
  \/ \E a \in RequestAgents : FcAssign(a)
  \/ \E a \in RequestAgents, p \in RequestProducts : FcComplete(a, p)
  \/ \E r \in 1..MaxReq : FcUpdateStep(r)
  \/ \E r \in 1..MaxReq : FcRespondStep(r)

SpecFc == InitFc /\ [][NextFc]_vars

\* loadData of "fc".  output.csv, agents.json and assignments.json are not
\* variables of the model: the loads are explored one at a time, so the file
\* a load reads is the one its own request left (the uploaded file, or the
\* rows the products were read from); assignments.json and the roster of
\* agents.json are as the handlers last saved them, which is what the
\* stores hold.
LoadInFlight == \E r \in DOMAIN reqs : reqs[r].kind \in {"upload", "refresh"}

\* POST /api/upload-output: the uploaded file is renamed to output.csv.
FcUpload(csvRows) ==
  /\ variant = "fc" /\ ~LoadInFlight
  /\ \E r \in 1..MaxReq :
       /\ Arrives(r)
       /\ Await(r, [Request("upload", "loading", NoAgent, NoProduct, NULL, 0)
                      EXCEPT !.rows = csvRows])
       /\ UNCHANGED <<variant, agents, products, assignments, completedAssignments,
                      assignmentInProgress, now, lastResp>>

\* POST /api/refresh: output.csv is read as it stands.
FcRefresh ==
  /\ variant = "fc" /\ ~LoadInFlight
  /\ \E r \in 1..MaxReq :
       /\ Arrives(r)
       /\ Await(r, [Request("refresh", "loading", NoAgent, NoProduct, NULL, 0)
                      EXCEPT !.rows = [k \in 1..Len(products) |->
                                         CsvRow(products[k].id, products[k].priority,
                                                products[k].createdOn)]])
       /\ UNCHANGED <<variant, agents, products, assignments, completedAssignments,
                      assignmentInProgress, now, lastResp>>

\* loadData, step 2: products = csvRows.map(row => ({ ..., assigned: false })).
FcLoadProducts(r) ==
  /\ variant = "fc"
  /\ r \in DOMAIN reqs /\ reqs[r].pc = "loading"
  /\ products' = [k \in 1..Len(reqs[r].rows) |-> MkProduct(reqs[r].rows[k])]
  /\ Await(r, [reqs[r] EXCEPT !.pc = "loadingAssignments"])
  /\ UNCHANGED <<variant, agents, assignments, completedAssignments,
                 assignmentInProgress, nreq, now, lastResp>>

\* loadData, step 3: assignments.json is read, updateAgentAssignments() runs,
\* and the handler answers 200.
FcLoadAssignments(r) ==
  /\ variant = "fc"
  /\ r \in DOMAIN reqs /\ reqs[r].pc = "loadingAssignments"
  /\ agents' = updateAgentAssignments(agents, assignments, products)
  /\ Reply(r, reqs[r].kind, 200, "", NoAgent, NoProduct, NULL, 0)
  /\ UNCHANGED <<variant, products, assignments, completedAssignments,
                 assignmentInProgress, nreq, now>>

NextFcLoad ==
  \/ NextFc
  \/ \E f \in CsvFiles : FcUpload(f)
  \/ FcRefresh
  \/ \E r \in 1..MaxReq : FcLoadProducts(r)
  \/ \E r \in 1..MaxReq : FcLoadAssignments(r)

SpecFcLoad == InitFc /\ [][NextFcLoad]_vars

\* ===================================================================
\* "mg": the MongoDB-backed server (src/unnamed/part_002 1-661).  products
\* and assignments are the collections.  Every await is a point where other
\* handlers run; an awaited database operation takes effect when its handler
\* resumes.  Agent documents never change, so the handlers that hold no lock
\* read Agent.findById together with the request.  The ledger documents have
\* the fields of MkAssignment (wasUnassigned is never set here) and the
\* queries' { completed: false, unassignedTime: { $exists: false } } is MkActive.
\* ===================================================================

\* An Agent document: name, capacity (models/Agent.js); id stands for _id.
MgAgent(id) == [id |-> id, name |-> AgentName(id), capacity |-> CapacityOf(id)]

\* The locals of a handler of this server.
MgRequest(kind, pc, agentId, productId) ==
  [kind |-> kind, pc |-> pc, agentId |-> agentId, productId |-> productId,
   asg |-> NULL, count |-> 0, todo |-> <<>>, time |-> NULL, write |-> FALSE,
   ids |-> {}, rows |-> <<>>]

\* POST /api/assign up to await Agent.findById: the lock flag is taken.
MgAssign(agentId) ==
  /\ variant = "mg"
  /\ \E r \in 1..MaxReq :
       /\ Arrives(r)
       /\ UNCHANGED <<variant, agents, products, assignments, completedAssignments, now>>
       /\ IF LockHeld
          THEN /\ Reply(r, "assign", 409, "in progress", agentId, NoProduct, NULL, 0)
               /\ UNCHANGED assignmentInProgress
          ELSE IF agentId = NoAgent
          THEN /\ Reply(r, "assign", 400, "agent id required", agentId, NoProduct, NULL, 0)
               /\ UNCHANGED assignmentInProgress
          ELSE /\ assignmentInProgress' = TRUE
               /\ Await(r, MgRequest("assign", "findAgent", agentId, NoProduct))
               /\ UNCHANGED lastResp

\* Mutant: a refusal after an await returns with the lock flag still set.
MgAssignRefuseLockKept(r, status, error) ==
  /\ UNCHANGED assignmentInProgress
  /\ Reply(r, "assign", status, error, reqs[r].agentId, NoProduct, NULL, 0)

\* A refusal of POST /api/assign after an await: the lock flag is released.
MgAssignRefuse(r, status, error) ==
  /\ assignmentInProgress' = FALSE
  /\ Reply(r, "assign", status, error, reqs[r].agentId, NoProduct, NULL, 0)

\* POST /api/assign: Agent.findById answers.
MgAssignAgent(r) ==
  /\ variant = "mg"
  /\ r \in DOMAIN reqs /\ reqs[r].kind = "assign" /\ reqs[r].pc = "findAgent"
  /\ UNCHANGED <<variant, agents, products, assignments, completedAssignments, nreq, now>>
  /\ IF AgentIndex(reqs[r].agentId) = 0
     THEN MgAssignRefuse(r, 404, "agent not found")
     ELSE /\ Await(r, [reqs[r] EXCEPT !.pc = "count"])
          /\ UNCHANGED <<assignmentInProgress, lastResp>>

\* POST /api/assign: Assignment.countDocuments answers; the capacity check.
MgAssignCount(r) ==
  /\ variant = "mg"
  /\ r \in DOMAIN reqs /\ reqs[r].kind = "assign" /\ reqs[r].pc = "count"
  /\ UNCHANGED <<variant, agents, products, assignments, completedAssignments, nreq, now>>
  /\ LET agent == agents[AgentIndex(reqs[r].agentId)]
         activeCount == Len(SelectSeq(assignments,
                                   LAMBDA a : a.agentId = agent.id /\ MkActive(a)))
     IN IF activeCount >= agent.capacity
        THEN MgAssignRefuse(r, 400, "capacity")
        ELSE /\ Await(r, [reqs[r] EXCEPT !.pc = "findAll"])
             /\ UNCHANGED <<assignmentInProgress, lastResp>>

\* POST /api/assign: Assignment.find({}) answers; every record counts.
MgAssignFindAll(r) ==
  /\ variant = "mg"
  /\ r \in DOMAIN reqs /\ reqs[r].kind = "assign" /\ reqs[r].pc = "findAll"
  /\ Await(r, [reqs[r] EXCEPT !.ids = assignedProductIds(assignments), !.pc = "findProduct"])
  /\ UNCHANGED <<variant, agents, products, assignments, completedAssignments,
                 assignmentInProgress, nreq, now, lastResp>>

MgAvailableProductFlagOnly(ps, ids) ==
  LET match == {k \in 1..Len(ps) : ~ps[k].assigned}
  IN {k \in match : \A j \in match : ps[k].createdOn <= ps[j].createdOn}

\* Product.findOne({ assigned: false, id: { $nin: ids } }).sort({ createdOn: 1 }):
\* the positions the query may return (equal createdOn: any of them).
MgAvailableProduct(ps, ids) ==
  LET match == {k \in 1..Len(ps) : ~ps[k].assigned /\ ps[k].id \notin ids}
  IN {k \in match : \A j \in match : ps[k].createdOn <= ps[j].createdOn}

\* POST /api/assign: Product.findOne answers.
MgAssignFindProduct(r) ==
  /\ variant = "mg"
  /\ r \in DOMAIN reqs /\ reqs[r].kind = "assign" /\ reqs[r].pc = "findProduct"
  /\ UNCHANGED <<variant, agents, products, assignments, completedAssignments, nreq, now>>
  /\ IF MgAvailableProduct(products, reqs[r].ids) = {}
     THEN MgAssignRefuse(r, 404, "no products")
     ELSE \E k \in MgAvailableProduct(products, reqs[r].ids) :
            /\ Await(r, [reqs[r] EXCEPT !.productId = products[k].id, !.pc = "saveProduct"])
            /\ UNCHANGED <<assignmentInProgress, lastResp>>

\* POST /api/assign: availableProduct.save() is applied.
MgAssignSave(r) ==
  /\ variant = "mg"
  /\ r \in DOMAIN reqs /\ reqs[r].kind = "assign" /\ reqs[r].pc = "saveProduct"
  /\ products' = [products EXCEPT ![ProductIndex(reqs[r].productId)].assigned = TRUE]
  /\ now' = now + 1
  /\ Await(r, [reqs[r] EXCEPT !.time = now + 1, !.pc = "create"])
  /\ UNCHANGED <<variant, agents, assignments, completedAssignments,
                 assignmentInProgress, nreq, lastResp>>

\* POST /api/assign: Assignment.create is applied, the lock released, 200 sent.
MgAssignCreate(r) ==
  /\ variant = "mg"
  /\ r \in DOMAIN reqs /\ reqs[r].kind = "assign" /\ reqs[r].pc = "create"
  /\ assignments' = Append(assignments,
                           MkAssignment(r, reqs[r].agentId, reqs[r].productId, reqs[r].time))
  /\ assignmentInProgress' = FALSE
  /\ Reply(r, "assign", 200, "", reqs[r].agentId, reqs[r].productId, r, 0)
  /\ UNCHANGED <<variant, agents, products, completedAssignments, nreq, now>>

\* POST /api/assign: the awaited database operation throws instead of taking
\* effect (the connection is lost, the document is rejected); the catch block
\* releases the lock flag and sends 500.  What was written before stays.
MgAssignFail(r) ==
  /\ variant = "mg"
  /\ r \in DOMAIN reqs /\ reqs[r].kind = "assign"
  /\ assignmentInProgress' = FALSE
  /\ Reply(r, "assign", 500, "server error", reqs[r].agentId, reqs[r].productId, NULL, 0)
  /\ UNCHANGED <<variant, agents, products, assignments, completedAssignments, nreq, now>>

\* A handler without a lock, from the request to its first query of the ledger.
MgStart(kind, agentId, productId, needsAgent, needsProduct) ==
  /\ variant = "mg"
  /\ \E r \in 1..MaxReq :
       /\ Arrives(r)
       /\ UNCHANGED <<variant, assignmentInProgress>>
       /\ IF (needsAgent /\ agentId = NoAgent) \/ (needsProduct /\ productId = NoProduct)
          THEN Refuse(r, kind, 400, "ids required", agentId, productId)
          ELSE IF needsAgent /\ AgentIndex(agentId) = 0
          THEN Refuse(r, kind, 404, "agent not found", agentId, productId)
          ELSE /\ Await(r, MgRequest(kind, "find", agentId, productId))
               /\ UNCHANGED <<agents, products, assignments, completedAssignments,
                              now, lastResp>>

\* POST /api/complete
MgComplete(agentId, productId) == MgStart("complete", agentId, productId, TRUE, TRUE)
\* POST /api/complete-all-agent
MgCompleteAll(agentId) == MgStart("completeAll", agentId, NoProduct, TRUE, FALSE)
\* POST /api/unassign-product
MgUnassignProduct(productId) == MgStart("unassignProduct", NoAgent, productId, FALSE, TRUE)
\* POST /api/unassign-agent
MgUnassignAgent(agentId) == MgStart("unassignAgent", agentId, NoProduct, TRUE, FALSE)
\* POST /api/unassign-all
MgUnassignAll == MgStart("unassignAll", NoAgent, NoProduct, FALSE, FALSE)

\* The ids of the records the handler's Assignment.find / findOne returns.
MgTargets(req) ==
  LET hit(a) == /\ MkActive(a)
                /\ req.kind \in {"complete", "completeAll", "unassignAgent"}
                     => a.agentId = req.agentId
                /\ req.kind \in {"complete", "unassignProduct"}
                     => a.productId = req.productId
      found == SelectSeq(assignments, hit)
      ids == [i \in 1..Len(found) |-> found[i].id]
  IN IF req.kind = "complete" /\ Len(ids) > 1 THEN <<ids[1]>> ELSE ids

\* What each handler answers when its query finds nothing.
MgNothingFound(kind) ==
  IF kind \in {"complete", "unassignProduct"} THEN 404 ELSE 200

\* The query of the ledger answers; the first record is marked and its save awaited.
MgFind(r) ==
  /\ variant = "mg"
  /\ r \in DOMAIN reqs /\ reqs[r].kind # "assign" /\ reqs[r].pc = "find"
  /\ UNCHANGED <<variant, agents, products, assignments, completedAssignments,
                 assignmentInProgress, nreq>>
  /\ IF MgTargets(reqs[r]) = <<>>
     THEN /\ Reply(r, reqs[r].kind, MgNothingFound(reqs[r].kind), "nothing active",
                   reqs[r].agentId, reqs[r].productId, NULL, 0)
          /\ UNCHANGED now
     ELSE /\ now' = now + 1
          /\ Await(r, [reqs[r] EXCEPT !.todo = MgTargets(reqs[r]),
                                      !.count = Len(MgTargets(reqs[r])),
                                      !.time = now + 1, !.pc = "saveAssignment"])
          /\ UNCHANGED lastResp

\* The fields assignment.save() writes: the ones the handler modified.
MgMark(a, kind, time) ==
  IF kind \in {"complete", "completeAll"}
  THEN MarkCompleted(a, time)
  ELSE [a EXCEPT !.unassignedTime = time, !.unassignedBy = NameOf(agents, a.agentId)]

\* assignment.save() is applied.  unassign-product saves every record before it
\* turns to the product; the other handlers turn to the record's product.
MgSaveAssignment(r) ==
  /\ variant = "mg"
  /\ r \in DOMAIN reqs /\ reqs[r].kind # "assign" /\ reqs[r].pc = "saveAssignment"
  /\ LET i == FindIndex({j \in 1..Len(assignments) : assignments[j].id = Head(reqs[r].todo)})
     IN /\ assignments' = [assignments EXCEPT ![i] = MgMark(@, reqs[r].kind, reqs[r].time)]
        /\ IF reqs[r].kind = "unassignProduct"
           THEN IF Len(reqs[r].todo) > 1
                THEN /\ now' = now + 1
                     /\ Await(r, [reqs[r] EXCEPT !.todo = Tail(@), !.time = now + 1])
                ELSE /\ now' = now
                     /\ Await(r, [reqs[r] EXCEPT !.todo = <<>>, !.pc = "findProduct"])
           ELSE /\ now' = now
                /\ Await(r, [reqs[r] EXCEPT !.productId = assignments[i].productId,
                                            !.pc = "findProduct"])
  /\ UNCHANGED <<variant, agents, products, completedAssignments,
                 assignmentInProgress, nreq, lastResp>>

\* The handler goes on after the product: the next record of its loop, or 200.
MgAdvance(r) ==
  IF Len(reqs[r].todo) > 1
  THEN /\ now' = now + 1
       /\ Await(r, [reqs[r] EXCEPT !.todo = Tail(@), !.time = now + 1,
                                   !.pc = "saveAssignment"])
       /\ UNCHANGED lastResp
  ELSE /\ now' = now
       /\ Reply(r, reqs[r].kind, 200, "", reqs[r].agentId,
                IF reqs[r].kind \in {"complete", "unassignProduct"}
                THEN reqs[r].productId ELSE NoProduct,
                NULL, reqs[r].count)

\* Product.findOne({ id }) answers; product.assigned = false; product.save()
\* has something to write only if the document read was flagged assigned.
MgFindProduct(r) ==
  /\ variant = "mg"
  /\ r \in DOMAIN reqs /\ reqs[r].kind # "assign" /\ reqs[r].pc = "findProduct"
  /\ UNCHANGED <<variant, agents, products, assignments, completedAssignments,
                 assignmentInProgress, nreq>>
  /\ LET k == ProductIndex(reqs[r].productId)
     IN IF k = 0
        THEN MgAdvance(r)
        ELSE /\ now' = now
             /\ Await(r, [reqs[r] EXCEPT !.write = products[k].assigned, !.pc = "saveProduct"])
             /\ UNCHANGED lastResp

\* product.save() is applied.
MgSaveProduct(r) ==
  /\ variant = "mg"
  /\ r \in DOMAIN reqs /\ reqs[r].kind # "assign" /\ reqs[r].pc = "saveProduct"
  /\ products' = IF reqs[r].write THEN Release(products, {reqs[r].productId}) ELSE products
  /\ MgAdvance(r)
  /\ UNCHANGED <<variant, agents, assignments, completedAssignments,
                 assignmentInProgress, nreq>>

\* The product documents POST /api/upload-output upserts: the rows of
\* output.csv (taken to be the rows the products came from) with the uploaded
\* rows merged in by id, rows without id dropped.
MgMergedRows(ps, csvRows) ==
  LET keyed == SelectSeq(csvRows, LAMBDA row : row.id # NoProduct)
      last(id) == keyed[CHOOSE i \in 1..Len(keyed) :
                          keyed[i].id = id /\ \A j \in (i+1)..Len(keyed) : keyed[j].id # id]
      existing == [k \in 1..Len(ps) |->
                     IF \E i \in 1..Len(keyed) : keyed[i].id = ps[k].id
                     THEN last(ps[k].id)
                     ELSE CsvRow(ps[k].id, ps[k].priority, ps[k].createdOn)]
      fresh == {i \in 1..Len(keyed) :
                  /\ \A k \in 1..Len(ps) : ps[k].id # keyed[i].id
                  /\ \A j \in 1..(i-1) : keyed[j].id # keyed[i].id}
      added == SelectSeq([i \in 1..Len(keyed) |-> IF i \in fresh THEN last(keyed[i].id)
                                                   ELSE CsvRow(NoProduct, "", 0)],
                      LAMBDA row : row.id # NoProduct)
  IN existing \o added

\* POST /api/upload-output up to the first Product.findOneAndUpdate.
MgUpload(csvRows) ==
  /\ variant = "mg"
  /\ \E r \in 1..MaxReq :
       /\ Arrives(r)
       /\ IF MgMergedRows(products, csvRows) = <<>>
          THEN Reply(r, "upload", 200, "", NoAgent, NoProduct, NULL, 0)
          ELSE /\ Await(r, [MgRequest("upload", "upsert", NoAgent, NoProduct)
                              EXCEPT !.rows = MgMergedRows(products, csvRows)])
               /\ UNCHANGED lastResp
       /\ UNCHANGED <<variant, agents, products, assignments, completedAssignments,
                      assignmentInProgress, now>>

\* Product.findOneAndUpdate({ id }, prod, { upsert: true }): the fields the row
\* defines are set, assigned is set to false.
MgUpserted(ps, row) ==
  LET k == FindIndex({k \in 1..Len(ps) : ps[k].id = row.id})
  IN IF k = 0
     THEN Append(ps, MkProduct(row))
     ELSE [ps EXCEPT ![k] = [@ EXCEPT !.priority = IF row.priority = "" THEN @ ELSE row.priority,
                                      !.createdOn = row.createdOn,
                                      !.assigned = FALSE]]

\* POST /api/upload-output: one findOneAndUpdate is applied.
MgUpsert(r) ==
  /\ variant = "mg"
  /\ r \in DOMAIN reqs /\ reqs[r].kind = "upload" /\ reqs[r].pc = "upsert"
  /\ products' = MgUpserted(products, Head(reqs[r].rows))
  /\ IF Len(reqs[r].rows) > 1
     THEN /\ Await(r, [reqs[r] EXCEPT !.rows = Tail(@)])
          /\ UNCHANGED lastResp
     ELSE Reply(r, "upload", 200, "", NoAgent, NoProduct, NULL, 0)
  /\ UNCHANGED <<variant, agents, assignments, completedAssignments,
                 assignmentInProgress, nreq, now>>

\* The collections after loadData on an empty database.
InitMg == \E ps \in MkProductLists :
            InitStores("mg", [i \in 1..NAgents |-> MgAgent(i)], ps)

NextMg ==
  \/ \E a \in RequestAgents : MgAssign(a)
  \/ \E r \in 1..MaxReq : MgAssignAgent(r)
  \/ \E r \in 1..MaxReq : MgAssignCount(r)
  \/ \E r \in 1..MaxReq : MgAssignFindAll(r)
  \/ \E r \in 1..MaxReq : MgAssignFindProduct(r)
  \/ \E r \in 1..MaxReq : MgAssignSave(r)
  \/ \E r \in 1..MaxReq : MgAssignCreate(r)
  \/ \E a \in RequestAgents, p \in RequestProducts : MgComplete(a, p)
  \/ \E a \in RequestAgents : MgCompleteAll(a)
  \/ \E p \in RequestProducts : MgUnassignProduct(p)
  \/ \E a \in RequestAgents : MgUnassignAgent(a)
  \/ MgUnassignAll
  \/ \E r \in 1..MaxReq : MgFind(r)
  \/ \E r \in 1..MaxReq : MgSaveAssignment(r)
  \/ \E r \in 1..MaxReq : MgFindProduct(r)
  \/ \E r \in 1..MaxReq : MgSaveProduct(r)
  \/ \E f \in CsvFiles : MgUpload(f)
  \/ \E r \in 1..MaxReq : MgUpsert(r)

SpecMg == InitMg /\ [][NextMg]_vars

\* POST /api/assign on a database whose operations may fail.
NextMgAssignFail ==
  \/ \E a \in RequestAgents : MgAssign(a)
  \/ \E r \in 1..MaxReq : MgAssignAgent(r)
  \/ \E r \in 1..MaxReq : MgAssignCount(r)
  \/ \E r \in 1..MaxReq : MgAssignFindAll(r)
  \/ \E r \in 1..MaxReq : MgAssignFindProduct(r)
  \/ \E r \in 1..MaxReq : MgAssignSave(r)
  \/ \E r \in 1..MaxReq : MgAssignCreate(r)
  \/ \E r \in 1..MaxReq : MgAssignFail(r)

SpecMgAssignFail == InitMg /\ [][NextMgAssignFail]_vars

\* ===================================================================
\* "tx": the MongoDB-backed server whose assign handler writes in a
\* transaction (src/server.js 1796-2145); assignmentInProgress stands for its
\* assignmentLock.  The Agent documents are those of models/agent.js (id,
\* capacity, currentAssignments), the fields the handler reads.
\* ===================================================================

\* POST /api/assign up to await Promise.all([...]): the lock flag is taken.
TxAssign(agentId) ==
  /\ variant = "tx"
  /\ \E r \in 1..MaxReq :
       /\ Arrives(r)
       /\ UNCHANGED <<variant, agents, products, assignments, completedAssignments, now>>
       /\ IF LockHeld
          THEN /\ Reply(r, "assign", 409, "in progress", agentId, NoProduct, NULL, 0)
               /\ UNCHANGED assignmentInProgress
          ELSE IF agentId = NoAgent
          THEN /\ Reply(r, "assign", 400, "agent id required", agentId, NoProduct, NULL, 0)
               /\ UNCHANGED assignmentInProgress
          ELSE /\ assignmentInProgress' = TRUE
               /\ Await(r, MgRequest("assign", "queries", agentId, NoProduct))
               /\ UNCHANGED lastResp

\* POST /api/assign: Agent.findOne and the distinct productIds of the active
\* records answer; the capacity check reads agent.currentAssignments.
TxAssignQueries(r) ==
  /\ variant = "tx"
  /\ r \in DOMAIN reqs /\ reqs[r].kind = "assign" /\ reqs[r].pc = "queries"
  /\ UNCHANGED <<variant, agents, products, assignments, completedAssignments, nreq, now>>
  /\ IF AgentIndex(reqs[r].agentId) = 0
     THEN MgAssignRefuse(r, 404, "agent not found")
     ELSE IF AtCapacity(agents[AgentIndex(reqs[r].agentId)])
     THEN MgAssignRefuse(r, 400, "capacity")
     ELSE /\ Await(r, [reqs[r] EXCEPT
                         !.ids = assignedProductIds(SelectSeq(assignments, MkActive)),
                         !.pc = "findProduct"])
          /\ UNCHANGED <<assignmentInProgress, lastResp>>

\* POST /api/assign: Product.findOne answers; the session is started.
TxAssignFindProduct(r) ==
  /\ variant = "tx"
  /\ r \in DOMAIN reqs /\ reqs[r].kind = "assign" /\ reqs[r].pc = "findProduct"
  /\ UNCHANGED <<variant, agents, products, assignments, completedAssignments, nreq, now>>
  /\ IF MgAvailableProduct(products, reqs[r].ids) = {}
     THEN MgAssignRefuse(r, 404, "no products")
     ELSE \E k \in MgAvailableProduct(products, reqs[r].ids) :
            /\ Await(r, [reqs[r] EXCEPT !.productId = products[k].id, !.pc = "transaction"])
            /\ UNCHANGED <<assignmentInProgress, lastResp>>

\* POST /api/assign: the transaction commits (the product flagged, the record
\* inserted); the lock is released and 200 sent.
TxAssignCommit(r) ==
  /\ variant = "tx"
  /\ r \in DOMAIN reqs /\ reqs[r].kind = "assign" /\ reqs[r].pc = "transaction"
  /\ products' = [products EXCEPT ![ProductIndex(reqs[r].productId)].assigned = TRUE]
  /\ now' = now + 1
  /\ assignments' = Append(assignments,
                           MkAssignment(r, reqs[r].agentId, reqs[r].productId, now + 1))
  /\ assignmentInProgress' = FALSE
  /\ Reply(r, "assign", 200, "", reqs[r].agentId, reqs[r].productId, r, 0)
  /\ UNCHANGED <<variant, agents, completedAssignments, nreq>>

\* Mutant: the writes are not in a transaction; the flag is written, the
\* insert of the record throws.
TxAssignAbortFlagWritten(r) ==
  /\ variant = "tx"
  /\ r \in DOMAIN reqs /\ reqs[r].kind = "assign" /\ reqs[r].pc = "transaction"
  /\ products' = [products EXCEPT ![ProductIndex(reqs[r].productId)].assigned = TRUE]
  /\ assignmentInProgress' = FALSE
  /\ Reply(r, "assign", 500, "server error", reqs[r].agentId, NoProduct, NULL, 0)
  /\ UNCHANGED <<variant, agents, assignments, completedAssignments, nreq, now>>

\* POST /api/assign: the transaction throws; nothing is written, the catch
\* block releases the lock and sends 500.
TxAssignAbort(r) ==
  /\ variant = "tx"
  /\ r \in DOMAIN reqs /\ reqs[r].kind = "assign" /\ reqs[r].pc = "transaction"
  /\ assignmentInProgress' = FALSE
  /\ Reply(r, "assign", 500, "server error", reqs[r].agentId, NoProduct, NULL, 0)
  /\ UNCHANGED <<variant, agents, products, assignments, completedAssignments, nreq, now>>

\* One updateOne of the bulk write: { $set: { id, ..., priority, createdOn,
\* assigned: false } } with upsert; every modelled field is set from the row.
TxUpserted(ps, row) ==
  LET k == FindIndex({k \in 1..Len(ps) : ps[k].id = row.id})
  IN IF k = 0 THEN Append(ps, MkProduct(row)) ELSE [ps EXCEPT ![k] = MkProduct(row)]

RECURSIVE TxBulkWritten(_, _)
TxBulkWritten(ps, bulkOps) ==
  IF bulkOps = <<>> THEN ps
  ELSE TxBulkWritten(TxUpserted(ps, Head(bulkOps)), Tail(bulkOps))

\* POST /api/upload-output up to await Product.bulkWrite: the rows are read,
\* the rows without id dropped; 400 when no row is left.
TxUpload(csvRows) ==
  /\ variant = "tx"
  /\ \E r \in 1..MaxReq :
       /\ Arrives(r)
       /\ LET bulkOps == SelectSeq(csvRows, LAMBDA row : row.id # NoProduct)
          IN IF Len(bulkOps) > 0
             THEN /\ Await(r, [MgRequest("upload", "bulkWrite", NoAgent, NoProduct)
                                 EXCEPT !.rows = bulkOps])
                  /\ UNCHANGED lastResp
             ELSE Reply(r, "upload", 400, "no valid products", NoAgent, NoProduct, NULL, 0)
       /\ UNCHANGED <<variant, agents, products, assignments, completedAssignments,
                      assignmentInProgress, now>>

\* POST /api/upload-output: Product.bulkWrite is applied; 200.
TxBulkWrite(r) ==
  /\ variant = "tx"
  /\ r \in DOMAIN reqs /\ reqs[r].kind = "upload" /\ reqs[r].pc = "bulkWrite"
  /\ products' = TxBulkWritten(products, reqs[r].rows)
  /\ Reply(r, "upload", 200, "", NoAgent, NoProduct, NULL, Len(reqs[r].rows))
  /\ UNCHANGED <<variant, agents, assignments, completedAssignments,
                 assignmentInProgress, nreq, now>>

InitTx == \E ps \in MkProductLists : InitStores("tx", InitialAgents, ps)

NextTx ==
  \/ \E a \in RequestAgents : TxAssign(a)
  \/ \E r \in 1..MaxReq : TxAssignQueries(r)
  \/ \E r \in 1..MaxReq : TxAssignFindProduct(r)
  \/ \E r \in 1..MaxReq : TxAssignCommit(r)
  \/ \E r \in 1..MaxReq : TxAssignAbort(r)
  \/ \E f \in CsvFiles : TxUpload(f)
  \/ \E r \in 1..MaxReq : TxBulkWrite(r)

SpecTx == InitTx /\ [][NextTx]_vars

\* ===================================================================
\* "em": the early in-memory server, whose assign handler takes no lock
\* (src/unnamed/part_003 880-1176).  It has the assign and complete handlers
\* only; a completed product is flagged completed and unassigned.
\* ===================================================================

EmProduct(row) ==
  [id |-> row.id, priority |-> row.priority, createdOn |-> row.createdOn,
   assigned |-> FALSE, completed |-> FALSE]

\* POST /api/assign, from the request to await saveProducts().
EmAssign(agentId) ==
  /\ variant = "em"
  /\ \E r \in 1..MaxReq :
       /\ Arrives(r)
       /\ UNCHANGED <<variant, assignmentInProgress, completedAssignments>>
       /\ LET availableProducts ==
                ArraySort(SelectSeq(products, LAMBDA p : ~p.assigned), "early")
          IN IF agentId = NoAgent
             THEN Refuse(r, "assign", 400, "agent id required", agentId, NoProduct)
             ELSE IF AgentIndex(agentId) = 0
             THEN Refuse(r, "assign", 404, "agent not found", agentId, NoProduct)
             ELSE IF AtCapacity(agents[AgentIndex(agentId)])
             THEN Refuse(r, "assign", 400, "capacity", agentId, NoProduct)
             ELSE IF Len(availableProducts) = 0
             THEN Refuse(r, "assign", 404, "no products", agentId, NoProduct)
             ELSE LET productToAssign == availableProducts[1]
                  IN /\ products' = [products EXCEPT
                                       ![ProductIndex(productToAssign.id)].assigned = TRUE]
                     /\ now' = now + 1
                     /\ assignments' =
                          Append(assignments,
                                 [id |-> r, agentId |-> agentId,
                                  productId |-> productToAssign.id, assignedOn |-> now + 1])
                     /\ agents' = [agents EXCEPT ![AgentIndex(agentId)].currentAssignments =
                                     Append(@, [productId |-> productToAssign.id,
                                                priority |-> productToAssign.priority])]
                     /\ Await(r, Request("assign", "saving", agentId, productToAssign.id, r, 0))
                     /\ UNCHANGED lastResp

\* POST /api/complete, from the request to await saveProducts().
EmComplete(agentId, productId) ==
  /\ variant = "em"
  /\ \E r \in 1..MaxReq :
       /\ Arrives(r)
       /\ UNCHANGED <<variant, assignmentInProgress, completedAssignments>>
       /\ LET assignmentIndex ==
                FindIndex({i \in 1..Len(assignments) :
                             /\ assignments[i].agentId = agentId
                             /\ assignments[i].productId = productId})
              k == ProductIndex(productId)
          IN IF agentId = NoAgent \/ productId = NoProduct
             THEN Refuse(r, "complete", 400, "ids required", agentId, productId)
             ELSE IF AgentIndex(agentId) = 0
             THEN Refuse(r, "complete", 404, "agent not found", agentId, productId)
             ELSE IF assignmentIndex = 0
             THEN Refuse(r, "complete", 404, "assignment not found", agentId, productId)
             ELSE /\ assignments' = SubSeq(assignments, 1, assignmentIndex - 1)
                                    \o SubSeq(assignments, assignmentIndex + 1, Len(assignments))
                  /\ agents' = DropTask(agents, agentId, productId)
                  /\ products' = IF k = 0 THEN products
                                 ELSE [products EXCEPT ![k].assigned = FALSE,
                                                       ![k].completed = TRUE]
                  /\ Await(r, Request("complete", "saving", agentId, productId, NULL, 0))
                  /\ UNCHANGED <<now, lastResp>>

\* After await saveProducts(); await saveAssignments(); await saveAgents():
\* the handler answers 200.
EmRespondStep(r) ==
  /\ variant = "em"
  /\ r \in DOMAIN reqs /\ reqs[r].pc = "saving"
  /\ Reply(r, reqs[r].kind, 200, "", reqs[r].agentId, reqs[r].productId, reqs[r].asg, 0)
  /\ UNCHANGED <<variant, agents, products, assignments, completedAssignments,
                 assignmentInProgress, nreq, now>>

\* The state after loadData: the roster, two products of any class and
\* creation time, an empty ledger.
InitEm ==
  \E px \in Priorities, py \in Priorities, cx \in CreatedTimes, cy \in CreatedTimes :
    InitStores("em", InitialAgents,
               <<EmProduct(CsvRow("X", px, cx)), EmProduct(CsvRow("Y", py, cy))>>)

NextEm ==
  \/ \E a \in RequestAgents : EmAssign(a)
  \/ \E a \in RequestAgents, p \in RequestProducts : EmComplete(a, p)
  \/ \E r \in 1..MaxReq : EmRespondStep(r)

SpecEm == InitEm /\ [][NextEm]_vars

\* ===================================================================
\* Specifications over several servers
\* ===================================================================

\* The two servers whose assign handlers the single-assignment rule names.
SpecFbMg == (InitFb \/ InitMg) /\ [][NextFb \/ NextMg]_vars

\* The two servers whose lock checks are compared.
SpecFbTx == (InitFb \/ InitTx) /\ [][NextFb \/ NextTx]_vars

\* The three servers whose assign handlers take the lock flag, with the
\* failures their handlers can meet: file writes in "fb", database operations
\* in "mg", the transaction in "tx".
SpecLocks ==
  (InitFb \/ InitMg \/ InitTx) /\ [][NextFbWriteFails \/ NextMgAssignFail \/ NextTx]_vars

\* The two MongoDB-backed servers.
SpecMgTx == (InitMg \/ InitTx) /\ [][NextMg \/ NextTx]_vars

\* The two servers that keep terminal records in the ledger.
SpecMkMg == (InitMk \/ InitMg) /\ [][NextMk \/ NextMg]_vars

\* A burst of assign requests: MaxReq requests for agents that each have room
\* for all of them, against fewer products, all of them available.
BurstProducts(m) ==
  SubSeq(<<MkProduct(CsvRow("X", "P2", 1)), MkProduct(CsvRow("Y", "P2", 2)),
           MkProduct(CsvRow("Z", "P2", 3))>>, 1, m)

BurstSizes == {m \in 0..3 : m < MaxReq}

InitBurst ==
  \E m \in BurstSizes :
    \/ InitStores("fb", [i \in 1..NAgents |-> [Agent(i) EXCEPT !.capacity = MaxReq]],
                  [k \in 1..m |-> createProductFromCsvRow(
                                    CsvRow(BurstProducts(m)[k].id, "P2", k))])
    \/ InitStores("mg", [i \in 1..NAgents |-> [MgAgent(i) EXCEPT !.capacity = MaxReq]],
                  BurstProducts(m))

NextBurst ==
  \/ \E a \in AgentIds : FbAssign(a)
  \/ \E r \in 1..MaxReq : FbUpdateStep(r)
  \/ \E r \in 1..MaxReq : FbAssignRespond(r)
  \/ \E a \in AgentIds : MgAssign(a)
  \/ \E r \in 1..MaxReq : MgAssignAgent(r)
  \/ \E r \in 1..MaxReq : MgAssignCount(r)
  \/ \E r \in 1..MaxReq : MgAssignFindAll(r)
  \/ \E r \in 1..MaxReq : MgAssignFindProduct(r)
  \/ \E r \in 1..MaxReq : MgAssignSave(r)
  \/ \E r \in 1..MaxReq : MgAssignCreate(r)

SpecBurst == InitBurst /\ [][NextBurst]_vars

\* ===================================================================
\* Properties
\* ===================================================================

\* A record of the ledger is active: not completed and not unassigned.  ("fb"
\* and "fc" remove a record from the ledger instead of marking it unassigned.)
Active(a) == ~a.completed /\ (variant \notin {"fb", "fc"} => a.unassignedTime = NULL)

ActiveOfProduct(productId) ==
  {i \in 1..Len(assignments) : Active(assignments[i]) /\ assignments[i].productId = productId}

ActiveOfAgent(agentId) ==
  {i \in 1..Len(assignments) : Active(assignments[i]) /\ assignments[i].agentId = agentId}

\* The products an assign request may choose from.
Candidates ==
  {k \in 1..Len(products) : ~products[k].assigned /\ ActiveOfProduct(products[k].id) = {}}

\* This step is the first segment of an assign request that creates a record.
AssignStep == Len(assignments') = Len(assignments) + 1
NewAssignment == assignments'[Len(assignments')]
Chosen == ProductIndex(NewAssignment.productId)

\* This step starts a request of the given kind that reaches its first await.
Started(kind) == \E r \in DOMAIN reqs' \ DOMAIN reqs : reqs'[r].kind = kind
StartedRequest == reqs'[CHOOSE r \in DOMAIN reqs' \ DOMAIN reqs : TRUE]

\* C2: in "fb" the number of active ledger records of an agent never exceeds
\* the agent's capacity.
C2_CapacityRespected ==
  variant = "fb" =>
    \A i \in 1..Len(agents) : Cardinality(ActiveOfAgent(agents[i].id)) <= agents[i].capacity

\* C2 witness: an agent holds as many active records as its capacity and an
\* assign request for it has been refused for capacity.
C2_Witness ==
  /\ variant = "fb"
  /\ lastResp.kind = "assign" /\ lastResp.error = "capacity"
  /\ Cardinality(ActiveOfAgent(lastResp.agentId)) = CapacityOf(lastResp.agentId)

\* C5: in "fb" a product has assigned = true exactly when one active record
\* references it.
C5_AssignedIffOneActive ==
  variant = "fb" =>
    \A k \in 1..Len(products) :
      products[k].assigned <=> Cardinality(ActiveOfProduct(products[k].id)) = 1

\* The order of the priority classes the specification asks for.
ClassRank(priority) ==
  CASE priority = "P1" -> 1
    [] priority = "P2" -> 2
    [] priority = "P3" -> 3
    [] OTHER -> 4

\* C8: when no previously assigned product is a candidate, assign chooses a
\* never assigned candidate of the highest class present and, within the
\* class, of the earliest createdOn.
C8_HighestClassThenOldest ==
  [][(variant = "fb" /\ AssignStep /\ \A k \in Candidates : ~products[k].wasAssigned)
       => \A k \in Candidates :
            \/ ClassRank(products[Chosen].priority) < ClassRank(products[k].priority)
            \/ /\ ClassRank(products[Chosen].priority) = ClassRank(products[k].priority)
               /\ products[Chosen].createdOn <= products[k].createdOn]_vars

\* C9: complete(A, Y) followed by assign(A), with a never assigned product
\* available, does not assign the completed Y again.
C9_CompleteThenAssignSkipsCompleted ==
  [][(/\ variant = "fb"
      /\ reqs = <<>>
      /\ lastResp.kind = "complete" /\ lastResp.status = 200
      /\ AssignStep
      /\ NewAssignment.agentId = lastResp.agentId
      /\ ActiveOfAgent(lastResp.agentId) = {}
      /\ \E k \in Candidates : ~products[k].wasAssigned)
       => /\ NewAssignment.productId # lastResp.productId
          /\ ~products[Chosen].wasAssigned]_vars

Terminal(a) == a.completed \/ a.unassignedTime # NULL

\* This step receives a request; the request as it stands after the step.
Arrived == nreq' = nreq + 1
ArrivedRequest == IF nreq' \in DOMAIN reqs' THEN reqs'[nreq'] ELSE lastResp'

\* This step sends a response (lastResp' is the response).
Answered ==
  \/ Arrived /\ nreq' \notin DOMAIN reqs'
  \/ \E r \in DOMAIN reqs : r \notin DOMAIN reqs'

\* C1: in "fb" and in "mg", whatever requests interleave, no product is
\* referenced by more than one active ledger record.
C1_AtMostOneActive ==
  \A p \in ProductIds : Cardinality(ActiveOfProduct(p)) <= 1

\* C1 witness: in "mg" an upload has cleared the assigned flag of a product
\* that an active record references, and an assign request served after that
\* record was created has created another active record.
C1_Witness ==
  /\ variant = "mg"
  /\ \E i, j \in 1..Len(assignments) :
       /\ i < j /\ Active(assignments[i]) /\ Active(assignments[j])
       /\ ~products[ProductIndex(assignments[i].productId)].assigned

\* All the requests of the burst have been answered.
BurstOver == nreq = MaxReq /\ reqs = <<>>

NoProductTwice ==
  \A i, j \in 1..Len(assignments) :
    assignments[i].productId = assignments[j].productId => i = j

C4_BusyAnsweredAtOnce ==
  [][(Arrived /\ ArrivedRequest.kind = "assign" /\ assignmentInProgress)
       => /\ nreq' \notin DOMAIN reqs'
          /\ lastResp'.status = 409
          /\ UNCHANGED <<agents, products, assignments, completedAssignments,
                         assignmentInProgress>>]_vars

\* C4 witness: in "tx" an assign request has been answered 409 and the request
\* that holds the lock is still in flight.
C4_Witness ==
  /\ variant = "tx"
  /\ assignmentInProgress
  /\ lastResp.kind = "assign" /\ lastResp.status = 409
  /\ \E r \in DOMAIN reqs : reqs[r].kind = "assign"

\* C6: in "mk" no step changes completed, completedOn, unassignedTime or
\* unassignedBy of a terminal record, and a complete request for the agent
\* and product of a terminal record is answered 404 'Active assignment not
\* found' unless an active record of the same pair exists.
C6_TerminalIsFinal ==
  [][variant = "mk" =>
       /\ \A i \in 1..Len(assignments) :
            Terminal(assignments[i]) =>
              /\ i <= Len(assignments')
              /\ assignments'[i].completed = assignments[i].completed
              /\ assignments'[i].completedOn = assignments[i].completedOn
              /\ assignments'[i].unassignedTime = assignments[i].unassignedTime
              /\ assignments'[i].unassignedBy = assignments[i].unassignedBy
       /\ (/\ Arrived /\ ArrivedRequest.kind = "complete"
           /\ \E i \in 1..Len(assignments) :
                /\ Terminal(assignments[i])
                /\ assignments[i].agentId = ArrivedRequest.agentId
                /\ assignments[i].productId = ArrivedRequest.productId
           /\ \A i \in 1..Len(assignments) :
                (/\ assignments[i].agentId = ArrivedRequest.agentId
                 /\ assignments[i].productId = ArrivedRequest.productId)
                  => Terminal(assignments[i]))
            => /\ nreq' \notin DOMAIN reqs'
               /\ lastResp'.status = 404
               /\ lastResp'.error = "active assignment not found"]_vars

\* C6 witness: a complete request for the agent and product of a terminal
\* record has been refused with 404.
C6_Witness ==
  /\ variant = "mk"
  /\ lastResp.kind = "complete" /\ lastResp.status = 404
  /\ lastResp.error = "active assignment not found"
  /\ \E i \in 1..Len(assignments) :
       /\ Terminal(assignments[i])
       /\ assignments[i].agentId = lastResp.agentId
       /\ assignments[i].productId = lastResp.productId

\* C7: in "mk" and "mg", after unassign-product(X) or complete of X's
\* assignment has answered 200, with X left as the only product with
\* assigned = false and its record terminal, the assign request served next,
\* on its own, is not refused for lack of products.
C7_ReleasedProductIsReassigned ==
  [][(/\ variant \in {"mk", "mg"}
      /\ Answered /\ reqs' = <<>>
      /\ lastResp'.kind = "assign" /\ lastResp'.error = "no products")
       => ~ \E k \in 1..Len(products) :
              /\ lastResp.kind \in {"unassignProduct", "complete"}
              /\ lastResp.status = 200 /\ lastResp.productId = products[k].id
              /\ ~products[k].assigned
              /\ \A j \in 1..Len(products) : j # k => products[j].assigned
              /\ ActiveOfProduct(products[k].id) = {}
              /\ \E i \in 1..Len(assignments) :
                   /\ assignments[i].productId = products[k].id
                   /\ Terminal(assignments[i])]_vars

\* This step is taken by the handler of an upload request in flight.
UploadStep ==
  \E r \in DOMAIN reqs :
    reqs[r].kind = "upload" /\ (r \notin DOMAIN reqs' \/ reqs'[r] # reqs[r])

\* C11: in "mg" and "tx" a write of an upload request leaves assigned = true
\* on every product that an active record references.
C11_UploadKeepsAssignedFlag ==
  [][(variant \in {"mg", "tx"} /\ UploadStep)
       => \A k \in 1..Len(products) :
            (products[k].assigned /\ ActiveOfProduct(products[k].id) # {})
              => products'[k].assigned]_vars

\* This step is the merge of an upload request of "fb"; the rows of its file.
MergeStep ==
  \E r \in DOMAIN reqs :
    /\ reqs[r].kind = "upload" /\ reqs[r].pc = "reading"
    /\ r \in DOMAIN reqs' /\ reqs'[r].pc = "saving"
MergedRows == reqs[CHOOSE r \in DOMAIN reqs : reqs[r].kind = "upload" /\ reqs'[r] # reqs[r]].rows
MergedIds == {MergedRows[i].id : i \in 1..Len(MergedRows)} \ {NoProduct}
\* The last row of the file that names the product id.
LastRowOf(id) ==
  MergedRows[CHOOSE i \in 1..Len(MergedRows) :
               MergedRows[i].id = id /\ \A j \in (i + 1)..Len(MergedRows) : MergedRows[j].id # id]

\* C12: the merge removes and moves no product; it leaves unchanged every
\* product with assigned = true and every product no row names; an unassigned
\* product that a row names takes the row's fields and keeps wasAssigned,
\* unassignedTime and unassignedBy; each id not yet present is added once, with
\* assigned = false; rows without a product id change nothing.
C12_MergeFrame ==
  [][(variant = "fb" /\ MergeStep)
       => /\ Len(products') >= Len(products)
          /\ \A k \in 1..Len(products) :
               /\ products'[k].id = products[k].id
               /\ (products[k].assigned \/ products[k].id \notin MergedIds)
                    => products'[k] = products[k]
               /\ (~products[k].assigned /\ products[k].id \in MergedIds)
                    => products'[k] =
                         [createProductFromCsvRow(LastRowOf(products[k].id)) EXCEPT
                            !.wasAssigned = products[k].wasAssigned,
                            !.unassignedTime = products[k].unassignedTime,
                            !.unassignedBy = products[k].unassignedBy]
          /\ {products'[k].id : k \in (Len(products) + 1)..Len(products')}
               = MergedIds \ {products[k].id : k \in 1..Len(products)}
          /\ \A k \in (Len(products) + 1)..Len(products') :
               /\ ~products'[k].assigned
               /\ \A j \in 1..Len(products') : products'[j].id = products'[k].id => j = k
          /\ UNCHANGED <<agents, assignments, completedAssignments>>]_vars

\* C12 witness: a file that names the assigned product X (with other column
\* values) and the new product Z has been merged: X is as it was, Z is listed.
C12_Witness ==
  /\ variant = "fb"
  /\ \E r \in DOMAIN reqs :
       /\ reqs[r].kind = "upload" /\ reqs[r].pc = "saving"
       /\ \E i, j \in 1..Len(reqs[r].rows) : reqs[r].rows[i].id = "X" /\ reqs[r].rows[j].id = "Z"
  /\ ProductIndex("Z") # 0
  /\ products[ProductIndex("X")].assigned /\ products[ProductIndex("X")].priority = "P2"

\* C13: in "mg", once an assign request has ended with a failure of the
\* database, the lock flag is released and no product is left with
\* assigned = true and no active record.
C13_AssignWritesBothOrNeither ==
  (variant = "mg" /\ reqs = <<>> /\ lastResp.kind = "assign" /\ lastResp.status = 500)
    => /\ ~assignmentInProgress
       /\ \A k \in 1..Len(products) :
            products[k].assigned => ActiveOfProduct(products[k].id) # {}

\* C14: in "fb", in every state (each is a point where the GET handlers and
\* the other POST handlers run), a ledger record whose product has
\* assigned = true is listed in its agent's currentAssignments; the lock flag
\* is therefore never released before the three agree.
C14_NoPartialAssignObservable ==
  variant = "fb" =>
    \A i \in 1..Len(assignments) :
      LET k == ProductIndex(assignments[i].productId)
          g == AgentIndex(assignments[i].agentId)
      IN (k # 0 /\ g # 0 /\ products[k].assigned)
           => \E t \in 1..Len(agents[g].currentAssignments) :
                agents[g].currentAssignments[t].assignmentId = assignments[i].id

\* C15: in "mg" no ledger record is both completed and unassigned, whatever
\* complete and unassign requests overlap (so of two such requests for one
\* active record only one can have taken effect).
C15_CompletedXorUnassigned ==
  variant = "mg" =>
    \A i \in 1..Len(assignments) :
      ~(assignments[i].completed /\ assignments[i].unassignedTime # NULL)

\* C16: in "fc", when a complete request has answered 200 and no request is
\* in flight, the length of each agent's currentAssignments (the count the
\* capacity check of assign reads) is the number of the agent's records that
\* are not completed.
C16_CompleteLowersActiveCount ==
  (variant = "fc" /\ reqs = <<>> /\ lastResp.kind = "complete" /\ lastResp.status = 200)
    => \A i \in 1..Len(agents) :
         Len(agents[i].currentAssignments) = Cardinality(ActiveOfAgent(agents[i].id))

\* C17: in "tx" the number of active ledger records of an agent never exceeds
\* the agent's capacity.
C17_TxCapacityRespected ==
  variant = "tx" =>
    \A i \in 1..Len(agents) : Cardinality(ActiveOfAgent(agents[i].id)) <= agents[i].capacity

\* The active records of the agent and product the arriving request names.
ArrivedHits ==
  {i \in 1..Len(assignments) :
     /\ Active(assignments[i])
     /\ assignments[i].agentId = ArrivedRequest.agentId
     /\ assignments[i].productId = ArrivedRequest.productId}

\* This step is a later segment of a request of the given kind.
LaterStep(kind) ==
  \E r \in DOMAIN reqs :
    reqs[r].kind = kind /\ (r \notin DOMAIN reqs' \/ reqs'[r] # reqs[r])

\* products with assigned = false on the products whose id is in ids, and
\* nothing else changed.
Released(ids) ==
  [k \in 1..Len(products) |->
     IF products[k].id \in ids THEN [products[k] EXCEPT !.assigned = FALSE] ELSE products[k]]

\* C18: in "mk", a complete request that names an agent and a product is
\* answered 404 at once, with agents, products and ledger unchanged, when no
\* active record matches both; otherwise its first segment marks the one
\* matching record completed with completedOn set, clears the product's
\* assigned flag and changes no other record or product; its later segments
\* change neither ledger nor products, and when it answers 200 no agent lists
\* the completed assignment.
C18_CompleteOneOrNothing ==
  [][variant = "mk" =>
       /\ (/\ Arrived /\ ArrivedRequest.kind = "complete"
           /\ ArrivedRequest.agentId # NoAgent /\ ArrivedRequest.productId # NoProduct)
            => IF ArrivedHits = {}
               THEN /\ nreq' \notin DOMAIN reqs'
                    /\ lastResp'.status = 404
                    /\ UNCHANGED <<agents, products, assignments>>
               ELSE /\ nreq' \in DOMAIN reqs'
                    /\ \E i \in ArrivedHits :
                         /\ ArrivedHits = {i}
                         /\ now' # NULL
                         /\ assignments' = [assignments EXCEPT
                                              ![i].completed = TRUE, ![i].completedOn = now']
                         /\ ArrivedRequest.asg = assignments[i].id
                    /\ products' = Released({ArrivedRequest.productId})
       /\ LaterStep("complete") => UNCHANGED <<products, assignments>>
       /\ (Answered /\ lastResp'.kind = "complete" /\ lastResp'.status = 200)
            => \A g \in 1..Len(agents') :
                 \A t \in 1..Len(agents'[g].currentAssignments) :
                   agents'[g].currentAssignments[t].assignmentId # lastResp'.asg]_vars

\* C18 witness: a complete request for a product that is actively assigned to
\* another agent has been answered 404.
C18_Witness ==
  /\ variant = "mk"
  /\ lastResp.kind = "complete" /\ lastResp.status = 404
  /\ lastResp.error = "active assignment not found"
  /\ \E i \in 1..Len(assignments) :
       /\ Active(assignments[i])
       /\ assignments[i].productId = lastResp.productId
       /\ assignments[i].agentId # lastResp.agentId

\* The request r takes this step.
StepOf(r) == r \in DOMAIN reqs /\ (r \notin DOMAIN reqs' \/ reqs'[r] # reqs[r])

\* The products of the active records of an agent.
ProductsOfAgent(agentId) == {assignments[i].productId : i \in ActiveOfAgent(agentId)}

\* C19, the request's start.  In "mk" the first segment of complete-all-agent
\* for a known agent A completes every active record of A (completedOn set),
\* clears the assigned flag of their products and changes nothing else; with
\* no active record of A it answers 200 and changes nothing.  In "mg" the
\* query of the ledger returns every active record of A; with none the
\* request answers 200 and nothing is changed.
CompleteAllStarts ==
  /\ (/\ variant = "mk" /\ Arrived /\ ArrivedRequest.kind = "completeAll"
      /\ AgentIndex(ArrivedRequest.agentId) # 0)
       => IF ActiveOfAgent(ArrivedRequest.agentId) = {}
          THEN /\ nreq' \notin DOMAIN reqs' /\ lastResp'.status = 200
               /\ UNCHANGED <<agents, products, assignments>>
          ELSE /\ assignments' =
                    [i \in 1..Len(assignments) |->
                       IF i \in ActiveOfAgent(ArrivedRequest.agentId)
                       THEN [assignments[i] EXCEPT !.completed = TRUE, !.completedOn = now']
                       ELSE assignments[i]]
               /\ now' # NULL
               /\ products' = Released(ProductsOfAgent(ArrivedRequest.agentId))
  /\ \A r \in DOMAIN reqs :
       (/\ variant = "mg" /\ StepOf(r)
        /\ reqs[r].kind = "completeAll" /\ reqs[r].pc = "find")
         => /\ UNCHANGED <<products, assignments>>
            /\ IF ActiveOfAgent(reqs[r].agentId) = {}
               THEN r \notin DOMAIN reqs' /\ lastResp'.status = 200
               ELSE /\ r \in DOMAIN reqs'
                    /\ {reqs'[r].todo[t] : t \in 1..Len(reqs'[r].todo)}
                         = {assignments[i].id : i \in ActiveOfAgent(reqs[r].agentId)}

\* C19, the request's writes.  A later step of a complete-all-agent request
\* for A changes no record of another agent and no record that is already
\* completed or unassigned; a record it changes becomes completed with
\* completedOn set; a product it changes loses its assigned flag.
CompleteAllWrites ==
  \A r \in DOMAIN reqs :
    (StepOf(r) /\ reqs[r].kind = "completeAll" /\ reqs[r].pc # "find")
      => /\ Len(assignments') = Len(assignments)
         /\ \A i \in 1..Len(assignments) :
              \/ assignments'[i] = assignments[i]
              \/ /\ assignments[i].agentId = reqs[r].agentId
                 /\ ~Terminal(assignments[i])
                 /\ assignments'[i].completedOn # NULL
                 /\ assignments'[i] = [assignments[i] EXCEPT
                                         !.completed = TRUE,
                                         !.completedOn = assignments'[i].completedOn]
         /\ \E ids \in SUBSET ProductIds : products' = Released(ids)

\* C19, the request's end.  When complete-all-agent answers 200 with a count
\* of records, A has at least that many completed records and the product
\* of every completed record of A has assigned = false.
CompleteAllEnds ==
  (Answered /\ lastResp'.kind = "completeAll" /\ lastResp'.status = 200
    /\ lastResp'.count > 0)
    => LET done == {i \in 1..Len(assignments') :
                      /\ assignments'[i].agentId = lastResp'.agentId
                      /\ assignments'[i].completed}
       IN /\ Cardinality(done) >= lastResp'.count
          /\ \A i \in done : \A k \in 1..Len(products') :
               products'[k].id = assignments'[i].productId => ~products'[k].assigned

\* C19: in "mk" and "mg" complete-all-agent for agent A completes every
\* record of A that is active when the request starts and frees their
\* products, changes no record of another agent and no record that is already
\* completed or unassigned, and answers 200 without a change when A has no
\* active record.
C19_CompleteAllFrame ==
  [][(variant \in {"mk", "mg"})
       => (CompleteAllStarts /\ CompleteAllWrites /\ CompleteAllEnds)]_vars

\* The active records an arriving unassign request matches.
UnassignMatches ==
  {i \in 1..Len(assignments) :
     /\ Active(assignments[i])
     /\ ArrivedRequest.kind = "unassignProduct"
          => assignments[i].productId = ArrivedRequest.productId
     /\ ArrivedRequest.kind = "unassignAgent"
          => assignments[i].agentId = ArrivedRequest.agentId}

\* C20: in "mk" the first segment of unassign-product, unassign-agent and
\* unassign-all sets unassignedTime and unassignedBy (the name of the
\* record's agent) on every active record the request matches, changes no
\* other record and no other field, clears the assigned flag of exactly the
\* products of those records, and (unassign-agent, unassign-all: the handlers
\* whose answer carries a number) counts the records it unassigned; the later
\* segments change neither ledger nor products.
C20_UnassignFrame ==
  [][variant = "mk" =>
       /\ (Arrived /\ ArrivedRequest.kind \in {"unassignProduct", "unassignAgent",
                                               "unassignAll"})
            => /\ Len(assignments') = Len(assignments)
               /\ \A i \in 1..Len(assignments) :
                    IF i \in UnassignMatches
                    THEN /\ now' # NULL
                         /\ assignments'[i].unassignedTime = now'
                         /\ assignments'[i].unassignedBy
                              = agents[AgentIndex(assignments[i].agentId)].name
                         /\ [assignments'[i] EXCEPT
                               !.unassignedTime = NULL, !.unassignedBy = NoName,
                               !.wasUnassigned = FALSE] = assignments[i]
                    ELSE assignments'[i] = assignments[i]
               /\ products' = Released({assignments[i].productId : i \in UnassignMatches})
               /\ ArrivedRequest.kind # "unassignProduct"
                    => ArrivedRequest.count = Cardinality(UnassignMatches)
       /\ (LaterStep("unassignProduct") \/ LaterStep("unassignAgent")
             \/ LaterStep("unassignAll"))
            => UNCHANGED <<products, assignments>>]_vars

\* This step answers the arriving request.
AnsweredAtOnce == nreq' \notin DOMAIN reqs'

\* C21: in "fb" an assign request that arrives while the lock flag is free is
\* refused by the first failing check, in the order: no agentId (400), unknown
\* agent (404), agent at capacity (400 'capacity'), no candidate (404 'no
\* products'); the four errors differ; with no failing check it is not
\* refused; a refused request changes no agent, product or record.
C21_RefusedInOrder ==
  [][(variant = "fb" /\ Arrived /\ ArrivedRequest.kind = "assign" /\ ~assignmentInProgress)
       => LET agentId == ArrivedRequest.agentId
          IN /\ IF agentId = NoAgent
                THEN /\ AnsweredAtOnce
                     /\ lastResp'.status = 400 /\ lastResp'.error = "agent id required"
                ELSE IF AgentIndex(agentId) = 0
                THEN /\ AnsweredAtOnce
                     /\ lastResp'.status = 404 /\ lastResp'.error = "agent not found"
                ELSE IF Cardinality(ActiveOfAgent(agentId)) >= agents[AgentIndex(agentId)].capacity
                THEN /\ AnsweredAtOnce
                     /\ lastResp'.status = 400 /\ lastResp'.error = "capacity"
                ELSE IF Candidates = {}
                THEN /\ AnsweredAtOnce
                     /\ lastResp'.status = 404 /\ lastResp'.error = "no products"
                ELSE ~AnsweredAtOnce /\ AssignStep
             /\ AnsweredAtOnce
                  => UNCHANGED <<agents, products, assignments, completedAssignments,
                                 assignmentInProgress>>]_vars

\* C21 witness: an agent at capacity asked for a product when no product was
\* a candidate either; the answer is the capacity refusal.
C21_Witness ==
  /\ variant = "fb"
  /\ lastResp.kind = "assign" /\ lastResp.status = 400 /\ lastResp.error = "capacity"
  /\ Candidates = {}
  /\ ~assignmentInProgress
  /\ Cardinality(ActiveOfAgent(lastResp.agentId)) >= CapacityOf(lastResp.agentId)

\* C22: in "fb", a request of assign, complete or unassign during which the
\* write of a data file failed is not answered 200.
C22_WriteErrorAnswered ==
  [][\A r \in DOMAIN reqs :
       (/\ variant = "fb"
        /\ reqs[r].writeError
        /\ r \notin DOMAIN reqs')
         => lastResp'.status # 200]_vars

\* Two products carry the same ordering keys: both never assigned, of one
\* class and one creation time, or both assigned before, with one
\* unassignment time (or none) and one creation time.
SameKeys(p, q) ==
  /\ p.wasAssigned = q.wasAssigned
  /\ p.unassignedTime = q.unassignedTime
  /\ p.createdOn = q.createdOn
  /\ ~p.wasAssigned => p.priority = q.priority

\* The head of the candidate list, which the handler computes from products
\* and assignments before it looks at nothing else.
HeadCandidate == ProductIndex(FbAvailableProducts(products, assignments)[1].id)

C24_EarliestUnassignedFirst ==
  [][(/\ variant = "fb"
      /\ AssignStep
      /\ Cardinality({k \in Candidates : products[k].wasAssigned}) > 1
      /\ \E k \in Candidates : products[k].wasAssigned /\ products[k].unassignedTime # NULL)
       => /\ products[Chosen].wasAssigned
          /\ products[Chosen].unassignedTime # NULL
          /\ \A k \in Candidates :
               (products[k].wasAssigned /\ products[k].unassignedTime # NULL)
                 => products[Chosen].unassignedTime <= products[k].unassignedTime]_vars

\* The products whose assigned flag is set.
Flagged(ps) == {ps[k].id : k \in {j \in 1..Len(ps) : ps[j].assigned}}

\* C25: in "tx" the assigned flag and the assignment record of an assign take
\* effect in one step or not at all: a flag is set exactly in the step that
\* adds the record of that product, which answers 200 and releases the lock;
\* an assign whose transaction fails answers 500, writes neither, leaves its
\* product unassigned and releases the lock.
C25_FlagAndRecordTogether ==
  [][variant = "tx" =>
       /\ (Flagged(products') \ Flagged(products) # {}) <=> AssignStep
       /\ AssignStep =>
            /\ Flagged(products') \ Flagged(products) = {NewAssignment.productId}
            /\ lastResp'.kind = "assign" /\ lastResp'.status = 200
            /\ ~assignmentInProgress'
       /\ \A r \in DOMAIN reqs :
            (/\ reqs[r].kind = "assign" /\ reqs[r].pc = "transaction"
             /\ r \notin DOMAIN reqs' /\ lastResp'.status # 200)
              => /\ lastResp'.status = 500
                 /\ UNCHANGED <<products, assignments>>
                 /\ reqs[r].productId \notin Flagged(products')
                 /\ \A i \in 1..Len(assignments') : assignments'[i].id # r
                 /\ ~assignmentInProgress']_vars

\* C25 witness: the transaction of an assign has failed: 500 was sent, the
\* lock is free, no product is flagged and the ledger is empty.
C25_Witness ==
  /\ variant = "tx"
  /\ lastResp.kind = "assign" /\ lastResp.status = 500
  /\ ~assignmentInProgress
  /\ Flagged(products) = {} /\ assignments = <<>>

\* An assign request is in flight.
AssignInFlight(rs) == \E r \in DOMAIN rs : rs[r].kind = "assign"

\* C26: in "fb", "mg" and "tx" every assign that took the lock flag releases
\* it on the path it ends on, whatever the status: the flag is set only
\* while an assign is in flight, the step that ends an assign leaves it
\* clear, and an assign is answered 409 only while another is in flight.
C26_LockReleasedOnEveryPath ==
  [][/\ assignmentInProgress => AssignInFlight(reqs)
     /\ assignmentInProgress' => AssignInFlight(reqs')
     /\ \A r \in DOMAIN reqs :
          (reqs[r].kind = "assign" /\ r \notin DOMAIN reqs')
            => /\ ~assignmentInProgress'
               /\ lastResp'.status \in {200, 400, 404, 500}
     /\ (Arrived /\ AnsweredAtOnce /\ lastResp'.kind = "assign" /\ lastResp'.status = 409)
          => AssignInFlight(reqs)]_vars

\* C26 witness: in "mg" an assign that came after another request has ended
\* with 500, and the flag is clear.
C26_Witness ==
  /\ variant = "mg"
  /\ lastResp.kind = "assign" /\ lastResp.status = 500
  /\ nreq > 1 /\ reqs = <<>>
  /\ ~assignmentInProgress

\* C27: in "em", whose assign takes no lock, however assign and complete
\* requests interleave, no product is referenced by two assignment records
\* and no agent's currentAssignments is longer than its capacity.
C27_NoLockNoDoubleAssignment ==
  variant = "em" =>
    /\ \A i, j \in 1..Len(assignments) :
         assignments[i].productId = assignments[j].productId => i = j
    /\ \A i \in 1..Len(agents) : Len(agents[i].currentAssignments) <= agents[i].capacity

\* C27 witness: two assign requests are waiting for their saves at the same
\* time, each with its own product.
C27_Witness ==
  /\ variant = "em"
  /\ \E r1, r2 \in DOMAIN reqs :
       /\ r1 # r2
       /\ reqs[r1].kind = "assign" /\ reqs[r2].kind = "assign"
       /\ reqs[r1].productId # reqs[r2].productId
  /\ Len(assignments) = 2

\* C28: in "fb", when assign answers 200 the record it created is in the
\* ledger, its product is flagged assigned and the agent's
\* currentAssignments holds the product, whatever ran while it awaited.
C28_AnsweredAssignmentIsStored ==
  [][\A r \in DOMAIN reqs :
       (/\ variant = "fb"
        /\ reqs[r].kind = "assign"
        /\ r \notin DOMAIN reqs'
        /\ lastResp'.status = 200)
         => /\ \E i \in 1..Len(assignments') :
                 /\ assignments'[i].id = reqs[r].asg
                 /\ assignments'[i].productId = reqs[r].productId
            /\ \E k \in 1..Len(products') :
                 products'[k].id = reqs[r].productId /\ products'[k].assigned
            /\ \E t \in 1..Len(agents'[AgentIndex(reqs[r].agentId)].currentAssignments) :
                 agents'[AgentIndex(reqs[r].agentId)].currentAssignments[t].productId
                   = reqs[r].productId]_vars

\* C29: in "fc", once every request has been answered, each record that is
\* not completed references a product of the products list and a task of its
\* agent's currentAssignments carries its id.
C29_ActiveRecordsAreListed ==
  (variant = "fc" /\ reqs = <<>>) =>
    \A i \in 1..Len(assignments) :
      ~assignments[i].completed =>
        /\ ProductIndex(assignments[i].productId) # 0
        /\ \E t \in 1..Len(agents[AgentIndex(assignments[i].agentId)].currentAssignments) :
             agents[AgentIndex(assignments[i].agentId)].currentAssignments[t].assignmentId
               = assignments[i].id

\* The two ledgers are kept apart: assignments holds records that are not
\* completed, completedAssignments records that are, and no id is in both.
LedgersApart(asgs, done) ==
  /\ \A i \in 1..Len(asgs) : ~asgs[i].completed
  /\ \A j \in 1..Len(done) : done[j].completed
  /\ \A i \in 1..Len(asgs), j \in 1..Len(done) : asgs[i].id # done[j].id

\* C30: in "fb" assignments holds only records with completed = false,
\* completedAssignments only records with completed = true, no id is in both,
\* and no step takes a record out of completedAssignments or changes it.
C30_CompletedLedgerOnlyGrows ==
  [][variant = "fb" =>
       /\ LedgersApart(assignments, completedAssignments)
       /\ LedgersApart(assignments', completedAssignments')
       /\ Len(completedAssignments') >= Len(completedAssignments)
       /\ SubSeq(completedAssignments', 1, Len(completedAssignments))
            = completedAssignments]_vars

\* C30 witness: every request has been answered; one record has been
\* completed and another is active.
C30_Witness ==
  /\ variant = "fb"
  /\ reqs = <<>>
  /\ Len(completedAssignments) > 0
  /\ Len(assignments) > 0

====
